---- MODULE Spec2Model ----
(***************************************************************************)
(* REST2 radiative-transfer engine of rest2-ons: construction of a REST2   *)
(* instance from a LocationInputData, convert_radiation, the choice of a   *)
(* radiation stream and the ME / MAE / RMSE metrics.                       *)
(*                                                                         *)
(* Numbers.  A float is a record [nan, v]: nan marks NaN (the "missing"    *)
(* sentinel), v is a fixed-point integer.  Irradiances are in 0.1 W/m2;    *)
(* transmittances, cosines, the input variables and the parameters mu0, g  *)
(* are in thousandths.  Zenith angles are kept in degrees (the code keeps  *)
(* radians and converts with rad2deg).                                     *)
(*                                                                         *)
(* The transcendental parts of the engine (solar position, air masses and  *)
(* the per-band transmittance formulas) are tabulated: the table entry is  *)
(* the value the formula takes for that timestamp or atmosphere.           *)
(***************************************************************************)
EXTENDS Integers, Sequences, FiniteSets, TLC

\* ---------------------------------------------------------------- bounds
MaxLen == 2
MaxTime == 3

\* the most calls of get_storage and clear_cache that are followed
MaxCalls == 3

\* ------------------------------------------------- float values with NaN
Num(x) == [nan |-> FALSE, v |-> x]

NaN == [nan |-> TRUE, v |-> 0]

IsNaN(a) == a.nan

Add(a, b) == IF a.nan \/ b.nan THEN NaN ELSE Num(a.v + b.v)

Sub(a, b) == IF a.nan \/ b.nan THEN NaN ELSE Num(a.v - b.v)

\* product of a value with a factor in thousandths: (a * b) \div 1000, taken
\* by the thousands and the rest of b so that it stays within 32 bits
Mul(a, b) ==
    IF a.nan \/ b.nan THEN NaN
    ELSE Num(a.v * (b.v \div 1000) + (a.v * (b.v % 1000)) \div 1000)

\* quotient of two values of the same scale, in thousandths
Div(a, b) == IF a.nan \/ b.nan \/ b.v = 0 THEN NaN ELSE Num((a.v * 1000) \div b.v)

\* comparisons with NaN are false
Less(a, b) == ~a.nan /\ ~b.nan /\ a.v < b.v

Greater(a, b) == ~a.nan /\ ~b.nan /\ a.v > b.v

Abs(a) == IF a.nan THEN NaN ELSE IF a.v < 0 THEN Num(0 - a.v) ELSE a

One == Num(1000)

Zero == Num(0)

\* ------------------------------------------------------- optional values
None == [none |-> TRUE]

Some(x) == [none |-> FALSE, val |-> x]

\* --------------------------------------------------------------- frames
\* a polars frame with columns time, valor: a sequence of rows
Row(t, x) == [time |-> t, valor |-> x]

Column(frame, c) == [i \in 1..Len(frame) |-> frame[i][c]]

RECURSIVE InsertRow(_, _)
InsertRow(row, s) ==
    IF s = <<>> THEN <<row>>
    ELSE IF row.time <= Head(s).time THEN <<row>> \o s
    ELSE <<Head(s)>> \o InsertRow(row, Tail(s))

\* DataFrame.sort("time"), stable
RECURSIVE SortByTime(_)
SortByTime(frame) ==
    IF frame = <<>> THEN <<>>
    ELSE InsertRow(Head(frame), SortByTime(Tail(frame)))

\* pl.col("valor").clip(lo, hi)
\* a clip that only applies the upper bound
ClipValueUpper(x, lo, hi) ==
    IF x.nan THEN x ELSE IF x.v > hi THEN Num(hi) ELSE x

ClipValue(x, lo, hi) ==
    IF x.nan THEN x ELSE IF x.v < lo THEN Num(lo) ELSE IF x.v > hi THEN Num(hi) ELSE x

Clip(frame, bounds) ==
    [i \in 1..Len(frame) |-> Row(frame[i].time, ClipValue(frame[i].valor, bounds[1], bounds[2]))]

\* --------------------------------------------------------- solar geometry
Isc == 13661

ZenithTable == <<120, 60, 0, 90>>

ZenithDeg(t) == ZenithTable[((t - 1) % Len(ZenithTable)) + 1]

\* np.cos of a zenith angle, in thousandths
Cos(z) == CASE z = 0 -> Num(1000) [] z = 60 -> Num(500) [] z = 90 -> Num(0) [] z = 120 -> Num(0 - 500)

\* (Eext, zenith_angle) for a column of timestamps
extraterrestrial_radiation(times) ==
    [Eext |-> [i \in 1..Len(times) |-> Mul(Num(Isc), Cos(ZenithDeg(times[i])))],
     zenith_angle |-> [i \in 1..Len(times) |-> ZenithDeg(times[i])]]

\* the element of a one-element set: Only({e(x) : x \in {v}}) is e(v) with
\* v worked out once
Only(S) == CHOOSE x \in S : TRUE

\* ------------------------------------------------------ the input files
\* What the parquet files hold for one grid point: for each dataset and each
\* timestamp the raw value of every variable.  Dataset 1 is a clear sky,
\* 2 a cloudy sky, 3 holds values outside the physical bounds, 4 has gaps.
Datasets == 1..4

RawValue(d, var, t) ==
    CASE d = 1 ->
           (CASE var = "cod" -> Num(0) [] var = "albedo" -> Num(200)
              [] var = "h2o" -> Num(1000) [] var = "no2" -> Num(1)
              [] var = "o3" -> Num(300) [] var = "od550" -> Num(200)
              [] var = "psurf" -> Num(1013250) [] var = "angstrom_exponent" -> Num(1300))
      [] d = 2 ->
           (CASE var = "cod" -> Num(1000 * t) [] var = "albedo" -> Num(0)
              [] var = "h2o" -> Num(1500) [] var = "no2" -> Num(2)
              [] var = "o3" -> Num(350) [] var = "od550" -> Num(100)
              [] var = "psurf" -> Num(950000) [] var = "angstrom_exponent" -> Num(1000))
      [] d = 3 ->
           (CASE var = "cod" -> (IF t % 2 = 1 THEN Num(200000) ELSE Num(0 - 1000))
              [] var = "albedo" -> Num(1500)
              [] var = "h2o" -> Num(12000) [] var = "no2" -> Num(0 - 5)
              [] var = "o3" -> Num(11000)
              [] var = "od550" -> (IF t % 2 = 1 THEN Num(6000) ELSE Num(0 - 100))
              [] var = "psurf" -> Num(200000) [] var = "angstrom_exponent" -> Num(3000))
      [] d = 4 ->
           (CASE var = "cod" -> (IF t % 2 = 0 THEN NaN ELSE Num(3000))
              [] var = "albedo" -> Num(200)
              [] var = "h2o" -> (IF t % 3 = 0 THEN NaN ELSE Num(1000))
              [] var = "no2" -> Num(1)
              [] var = "o3" -> Num(300)
              [] var = "od550" -> (IF t % 3 = 0 THEN NaN ELSE Num(200))
              [] var = "psurf" -> Num(1013250) [] var = "angstrom_exponent" -> Num(1300))

\* the frame of one variable over a window of timestamps
Frame(d, var, ts) == [i \in 1..Len(ts) |-> Row(ts[i], RawValue(d, var, ts[i]))]

VariableNames == {"cod", "albedo", "h2o", "no2", "o3", "od550", "psurf", "angstrom_exponent"}

\* LocationInputData of dataset d over the window ts
LocationInputData(d, ts) ==
    [cod |-> Frame(d, "cod", ts),
     albedo |-> Frame(d, "albedo", ts),
     h2o |-> Frame(d, "h2o", ts),
     no2 |-> Frame(d, "no2", ts),
     o3 |-> Frame(d, "o3", ts),
     od550 |-> Frame(d, "od550", ts),
     psurf |-> Frame(d, "psurf", ts),
     angstrom_exponent |-> Some(Frame(d, "angstrom_exponent", ts))]

\* the same, with the frame of one variable covering another window (a file
\* that covers less or more of the time range than the others)
WithFrame(loc, var, frame) ==
    IF var = "angstrom_exponent"
    THEN [loc EXCEPT !.angstrom_exponent = Some(frame)]
    ELSE [loc EXCEPT ![var] = frame]

\* the same, built with skip_derived_fields(): no Angstrom exponent
WithoutAngstrom(loc) == [loc EXCEPT !.angstrom_exponent = None]

\* ascending windows of distinct timestamps
RECURSIVE Windows(_)
Windows(n) ==
    IF n = 0 THEN {<<>>}
    ELSE {Append(w, t) : w \in Windows(n - 1), t \in 1..MaxTime}

Ascending(w) == \A i \in 1..(Len(w) - 1) : w[i] < w[i + 1]

TimeWindows == UNION {{w \in Windows(n) : Ascending(w)} : n \in 1..MaxLen}

\* ------------------------------------------------------------------ REST2
ANGSTROM_EXPONENT_BOUNDS == <<0, 2500>>

SURFACE_PRESSURE_BOUNDS == <<300000, 1100000>>

WATER_VAPOUR_BOUNDS == <<0, 10000>>

OZONE_BOUNDS == <<0, 10000>>

NITROGEN_DIOXIDE_BOUNDS == <<0, 30>>

SURFACE_ALBEDO_BOUNDS == <<0, 1000>>

COD_BOUNDS == <<0, 160000>>

DEFAULT_PARAMETERS == [mu0 |-> 0, g |-> 850]

\* variable.sort("time")["valor"].to_numpy()
prepare_variable(variable) == Column(SortByTime(variable), "valor")

\* np.nan_to_num
nan_to_num(a) == [i \in 1..Len(a) |-> IF a[i].nan THEN Num(0) ELSE a[i]]

\* an instance built without the Angstrom exponent when it is absent
REST2InitUnchecked(location_data) ==
    LET solar == extraterrestrial_radiation(Column(location_data.cod, "time"))
    IN  [raised |-> "",
         self |->
           [extraterrestrial_radiation |-> solar.Eext,
            zenith_angle |-> solar.zenith_angle,
            angstrom_exponent |->
                IF location_data.angstrom_exponent.none THEN <<NaN>>
                ELSE prepare_variable(Clip(location_data.angstrom_exponent.val,
                                           ANGSTROM_EXPONENT_BOUNDS)),
            pressure |-> prepare_variable(Clip(location_data.psurf, SURFACE_PRESSURE_BOUNDS)),
            water_vapour |-> prepare_variable(Clip(location_data.h2o, WATER_VAPOUR_BOUNDS)),
            ozone |-> prepare_variable(Clip(location_data.o3, OZONE_BOUNDS)),
            nitrogen_dioxide |-> prepare_variable(Clip(location_data.no2, NITROGEN_DIOXIDE_BOUNDS)),
            surface_albedo |-> prepare_variable(Clip(location_data.albedo, SURFACE_ALBEDO_BOUNDS)),
            optical_depth_550nm |-> prepare_variable(location_data.od550),
            time_steps |-> Column(SortByTime(location_data.cod), "time"),
            cod |-> nan_to_num(prepare_variable(Clip(location_data.cod, COD_BOUNDS))),
            result |-> None]]

\* REST2.__init__: the exception raised, or the attributes of the new instance
REST2Init(location_data) ==
    LET solar == extraterrestrial_radiation(Column(location_data.cod, "time"))
    IN  IF location_data.angstrom_exponent.none
        THEN [raised |-> "ValueError"]
        ELSE [raised |-> "",
              self |->
                [extraterrestrial_radiation |-> solar.Eext,
                 zenith_angle |-> solar.zenith_angle,
                 angstrom_exponent |->
                     prepare_variable(Clip(location_data.angstrom_exponent.val, ANGSTROM_EXPONENT_BOUNDS)),
                 pressure |-> prepare_variable(Clip(location_data.psurf, SURFACE_PRESSURE_BOUNDS)),
                 water_vapour |-> prepare_variable(Clip(location_data.h2o, WATER_VAPOUR_BOUNDS)),
                 ozone |-> prepare_variable(Clip(location_data.o3, OZONE_BOUNDS)),
                 nitrogen_dioxide |-> prepare_variable(Clip(location_data.no2, NITROGEN_DIOXIDE_BOUNDS)),
                 surface_albedo |-> prepare_variable(Clip(location_data.albedo, SURFACE_ALBEDO_BOUNDS)),
                 optical_depth_550nm |-> prepare_variable(location_data.od550),
                 time_steps |-> Column(SortByTime(location_data.cod), "time"),
                 cod |-> nan_to_num(prepare_variable(Clip(location_data.cod, COD_BOUNDS))),
                 result |-> None]]

\* --------------------------------------------------------- numpy shapes
\* element i of an array used in an operation of n elements (a one-element
\* array is broadcast)
At(a, i) == IF Len(a) = 1 THEN a[1] ELSE a[i]

\* the lengths of the arrays that _internal_convert_radiation combines
ArrayLengths(self) ==
    {Len(self.extraterrestrial_radiation), Len(self.zenith_angle), Len(self.angstrom_exponent),
     Len(self.pressure), Len(self.water_vapour), Len(self.ozone), Len(self.nitrogen_dioxide),
     Len(self.surface_albedo), Len(self.optical_depth_550nm), Len(self.cod)}

\* numpy can broadcast the arrays together: each length is 1 or the common one
Broadcastable(lengths) == \A a \in lengths, b \in lengths : a = b \/ a = 1 \/ b = 1

BroadcastLen(lengths) == CHOOSE n \in lengths : \A m \in lengths : m <= n

\* ------------------------------------------- band transmittances (tables)
\* the aerosol forward scatterance factor 1 - exp(-0.6931 - 1.8326 cos(z))
Ba(z) == CASE z = 0 -> Num(920) [] z = 60 -> Num(800) [] z = 90 -> Num(500) [] z = 120 -> Num(0 - 250)

\* air mass for water vapour absorption at a zenith angle, in thousandths
amw(z) == CASE z = 0 -> Num(1000) [] z = 60 -> Num(1999) [] z = 90 -> Num(72223) [] z = 120 -> Num(2001)

\* np.power(0.55, -x) for x in thousandths: tabulated in steps of 0.5 and
\* interpolated between them
PowTable == <<1000, 1348, 1818, 2452, 3306, 4458>>

PowAt(x) ==
    LET k == x \div 500
    IN  IF k + 1 >= Len(PowTable) THEN PowTable[Len(PowTable)]
        ELSE PowTable[k + 1] + ((PowTable[k + 2] - PowTable[k + 1]) * (x % 500)) \div 500

Pow055Neg(x) == IF x.nan THEN NaN ELSE IF x.v < 0 THEN Num(1000) ELSE Num(PowAt(x.v))

\* optical_depth_550nm / np.power(0.55, -1 * angstrom_exponent)
ang_beta(optical_depth_550nm, angstrom_exponent) ==
    Div(optical_depth_550nm, Pow055Neg(angstrom_exponent))

\* a turbidity bounded from above only
angstrom_turbidity_capped(optical_depth_550nm, angstrom_exponent) ==
    Only({IF Greater(b, Num(1100)) THEN Num(1100) ELSE b :
            b \in {ang_beta(optical_depth_550nm, angstrom_exponent)}})

\* ang_beta[ang_beta > 1.1] = 1.1; ang_beta[ang_beta < 0] = 0
angstrom_turbidity(optical_depth_550nm, angstrom_exponent) ==
    Only({IF Greater(b, Num(1100)) THEN Num(1100) ELSE IF Less(b, Zero) THEN Zero ELSE b :
            b \in {ang_beta(optical_depth_550nm, angstrom_exponent)}})

\* REST2._evaluate_air_masses at one timestep: the air mass for water vapour
\* and the Angstrom turbidity (the other air masses enter the band terms
\* tabulated below)
evaluate_air_masses(zenith_angle, angstrom_exponent, pressure, optical_depth_550nm) ==
    [water_vapour_absorption |-> amw(zenith_angle),
     angstrom_turbidity |-> angstrom_turbidity(optical_depth_550nm, angstrom_exponent)]

\* Band 1 terms of an atmosphere, identified by its water vapour column
Band1Table(w) ==
    CASE w = 1500 ->
           [TR |-> 830, Tg |-> 990, To |-> 960, Tw |-> 985, TA |-> 850,
            Tw166 |-> 980, BR |-> 440, F |-> 3600, TAS |-> 860,
            TA25 |-> 960, TAS25 |-> 963, rs |-> 120]
      [] w = 10000 ->
           [TR |-> 700, Tg |-> 980, To |-> 700, Tw |-> 950, TA |-> 100,
            Tw166 |-> 940, BR |-> 430, F |-> 0 - 2000, TAS |-> 120,
            TA25 |-> 562, TAS25 |-> 589, rs |-> 350]
      [] OTHER ->
           [TR |-> 850, Tg |-> 990, To |-> 970, Tw |-> 990, TA |-> 800,
            Tw166 |-> 985, BR |-> 440, F |-> 3500, TAS |-> 820,
            TA25 |-> 946, TAS25 |-> 952, rs |-> 130]

\* Band 2 terms of the same atmosphere
Band2Table(w) ==
    CASE w = 1500 ->
           [TR |-> 990, Tg |-> 980, Tw |-> 800, TA |-> 920, Tw166 |-> 760, F |-> 3300,
            TAS |-> 930, TA25 |-> 979, TAS25 |-> 982, rs |-> 30]
      [] w = 10000 ->
           [TR |-> 980, Tg |-> 970, Tw |-> 500, TA |-> 300, Tw166 |-> 450, F |-> 0 - 1500,
            TAS |-> 360, TA25 |-> 740, TAS25 |-> 775, rs |-> 90]
      [] OTHER ->
           [TR |-> 990, Tg |-> 980, Tw |-> 850, TA |-> 900, Tw166 |-> 800, F |-> 3400,
            TAS |-> 920, TA25 |-> 974, TAS25 |-> 979, rs |-> 30]

\* a transmittance that depends on the water vapour: NaN where that is NaN
OfWater(w, x) == IF w.nan THEN NaN ELSE Num(x)

\* an aerosol term, which depends on the Angstrom turbidity: NaN where that
\* is NaN
OfTurbidity(air_masses, x) == IF air_masses.angstrom_turbidity.nan THEN NaN ELSE Num(x)

\* a ratio of two polynomials of the NO2 column un, whose coefficients are
\* given in millionths for un in thousandths
OfNO2(un, numerator, denominator) == IF un.nan THEN NaN ELSE Div(Num(numerator), Num(denominator))

\* g1, g2 and g3 of the transmittance for nitrogen dioxide absorption
g1(un) == OfNO2(un, 174990 + 41654 * un.v - 2146 * un.v * un.v, 1000000 + 22295 * un.v * un.v)

g2(un) == OfNO2(un, (un.v * (59324 * un.v - 1213400)) \div 1000, 1000000 + 8848 * un.v * un.v)

g3(un) == OfNO2(un, 174990 + 61658 * un.v + 9196 * un.v * un.v, 1000000 + 74109 * un.v * un.v)

\* (1 + g1 * am + g2 * np.power(am, 2)) / (1 + g3 * am)
Tn_middle(un, am) ==
    Div(Add(Add(One, Mul(g1(un), am)), Mul(g2(un), Mul(am, am))), Add(One, Mul(g3(un), am)))

\* no cap at all
Uncapped(x) == x

\* x[x > 1] = 1
CapAtOne(x) == IF Greater(x, One) THEN One ELSE x

\* REST2._band_1_radiation at one timestep
band_1_radiation(nitrogen_dioxide, water_vapour, zenith_angle, air_masses) ==
    LET t == Band1Table(water_vapour.v)
    IN  [TR |-> Num(t.TR), Tg |-> Num(t.Tg), To |-> Num(t.To),
         Tn |-> CapAtOne(Tn_middle(nitrogen_dioxide, air_masses.water_vapour_absorption)),
         Tw |-> OfWater(water_vapour, t.Tw), TA |-> OfTurbidity(air_masses, t.TA),
         Tn166 |-> CapAtOne(Tn_middle(nitrogen_dioxide, Num(1660))),
         Tw166 |-> OfWater(water_vapour, t.Tw166),
         BR |-> Num(t.BR), F |-> OfTurbidity(air_masses, t.F),
         TAS |-> OfTurbidity(air_masses, t.TAS), rs |-> OfTurbidity(air_masses, t.rs),
         Ba |-> Ba(zenith_angle), TA25 |-> OfTurbidity(air_masses, t.TA25),
         TAS25 |-> OfTurbidity(air_masses, t.TAS25)]

\* REST2._band_2_radiation at one timestep
band_2_radiation(water_vapour, zenith_angle, air_masses) ==
    LET t == Band2Table(water_vapour.v)
    IN  [TR |-> Num(t.TR), Tg |-> Num(t.Tg), To |-> One, Tn |-> One,
         Tw |-> OfWater(water_vapour, t.Tw), TA |-> OfTurbidity(air_masses, t.TA),
         Tn166 |-> One, Tw166 |-> OfWater(water_vapour, t.Tw166),
         BR |-> Num(500), F |-> OfTurbidity(air_masses, t.F),
         TAS |-> OfTurbidity(air_masses, t.TAS), rs |-> OfTurbidity(air_masses, t.rs),
         Ba |-> Ba(zenith_angle), TA25 |-> OfTurbidity(air_masses, t.TA25),
         TAS25 |-> OfTurbidity(air_masses, t.TAS25)]

\* --------------------------------------------------- cloud transmittance
\* np.exp(-x) for x in thousandths: tabulated in steps of 0.5 and
\* interpolated between them
ExpTable == <<1000, 607, 368, 223, 135, 82, 50, 30, 18, 11, 7, 4, 2, 1, 0>>

ExpNegAt(x) ==
    LET k == x \div 500
    IN  IF k + 1 >= Len(ExpTable) THEN 0
        ELSE ExpTable[k + 1] - ((ExpTable[k + 1] - ExpTable[k + 2]) * (x % 500)) \div 500

ExpNeg(x) ==
    IF x.nan THEN NaN
    ELSE IF x.v >= 0 THEN Num(ExpNegAt(x.v))
    ELSE IF ExpNegAt(0 - x.v) = 0 THEN Num(1000000)
    ELSE Num(1000000 \div ExpNegAt(0 - x.v))

\* a diffuse transmittance from which the direct one is not subtracted
cloud_transmittance_total(cod, mu0, g) ==
    LET direct_transmittance == ExpNeg(Div(cod, Num(500 + mu0)))
        diffuse_transmittance == Div(One, Add(One, Mul(Num(1000 - g), cod)))
    IN  [direct |-> direct_transmittance, diffuse |-> diffuse_transmittance]

\* REST2._cloud_transmittance at one timestep
cloud_transmittance(cod, mu0, g) ==
    LET direct_transmittance == ExpNeg(Div(cod, Num(500 + mu0)))
        diffuse_transmittance ==
            Sub(Div(One, Add(One, Mul(Num(1000 - g), cod))), direct_transmittance)
    IN  [direct |-> direct_transmittance, diffuse |-> diffuse_transmittance]

\* ------------------------------------------------------- band irradiance
\* x * num / den on a value
Scale(a, num, den) == IF a.nan THEN NaN ELSE Num((a.v * num) \div den)

\* the body shared by _band_1_irradiance and _band_2_irradiance, at one
\* timestep; fraction is the band's share of the extraterrestrial radiation
band_irradiance(fraction, extraterrestrial_radiation_i, zenith_angle, surface_albedo, radiation, transmittance) ==
    LET rg == surface_albedo
        TC_dir == transmittance.direct
        TC_dif == transmittance.diffuse
        cosz == Cos(zenith_angle)
        E0n == Scale(extraterrestrial_radiation_i, fraction, 100000)
        Ebn == Mul(Mul(Mul(Mul(Mul(Mul(E0n, radiation.TR), radiation.Tg), radiation.To),
                           radiation.Tn), radiation.Tw), radiation.TA)
        Ebn_cloud == Mul(Ebn, TC_dir)
        Edp == Mul(Mul(Mul(Mul(Mul(Mul(E0n, cosz), radiation.To), radiation.Tg),
                           radiation.Tn166), radiation.Tw166),
                   Add(Mul(Mul(radiation.BR, Sub(One, radiation.TR)), radiation.TA25),
                       Mul(Mul(Mul(radiation.Ba, radiation.F), radiation.TR),
                           Sub(One, radiation.TAS25))))
        Edp_cloud == Mul(Edp, TC_dif)
        rgrs == Mul(rg, radiation.rs)
        Edd == Div(Mul(rgrs, Add(Mul(Ebn, cosz), Edp)), Sub(One, rgrs))
        Edd_cloud == Div(Mul(rgrs, Add(Mul(Ebn_cloud, cosz), Edp_cloud)), Sub(One, rgrs))
    IN  [clear_sky |-> [direct_beam |-> Ebn, diffuse_on_absorbing_ground |-> Edp,
                        multiple_reflections |-> Edd],
         cloud_sky |-> [direct_beam |-> Ebn_cloud, diffuse_on_absorbing_ground |-> Edp_cloud,
                        multiple_reflections |-> Edd_cloud]]

\* a band 1 whose direct beam takes the diffuse transmittance of the cloud
\* as well
band_1_irradiance_scattered(extraterrestrial_radiation_i, zenith_angle, surface_albedo, radiation, transmittance) ==
    band_irradiance(46512, extraterrestrial_radiation_i, zenith_angle, surface_albedo, radiation,
                    [direct |-> Add(transmittance.direct, transmittance.diffuse),
                     diffuse |-> transmittance.diffuse])

band_1_irradiance(extraterrestrial_radiation_i, zenith_angle, surface_albedo, radiation, transmittance) ==
    band_irradiance(46512, extraterrestrial_radiation_i, zenith_angle, surface_albedo,
                    radiation, transmittance)

band_2_irradiance(extraterrestrial_radiation_i, zenith_angle, surface_albedo, radiation, transmittance) ==
    band_irradiance(51951, extraterrestrial_radiation_i, zenith_angle, surface_albedo,
                    radiation, transmittance)

\* ----------------------------------------------- clear and cloud streams
\* a value below 0 clipped to 0
QualityControlClip(x) == IF Less(x, Zero) THEN Zero ELSE x

\* x[x < lower] = np.nan, lower = 0
QualityControl(x) == IF Less(x, Zero) THEN NaN ELSE x

\* the night rule taking effect only past 120 degrees
NightZeroPast120(zenith_angle, x) == IF zenith_angle > 120 THEN Zero ELSE x

\* x[np.rad2deg(zenith_angle) > 90] = 0
NightZero(zenith_angle, x) == IF zenith_angle > 90 THEN Zero ELSE x

\* _clear_sky_irradiance up to the diffuse horizontal irradiance: the direct
\* horizontal, direct normal and diffuse irradiance after the zenith correction
clear_sky_components(zenith_angle, band1_clear_sky, band2_clear_sky) ==
    LET Ebn1 == band1_clear_sky.direct_beam
        Ebn2 == band2_clear_sky.direct_beam
        Edp1 == band1_clear_sky.diffuse_on_absorbing_ground
        Edp2 == band2_clear_sky.diffuse_on_absorbing_ground
        Edd1 == band1_clear_sky.multiple_reflections
        Edd2 == band2_clear_sky.multiple_reflections
    IN  [Ebh_cs |-> NightZero(zenith_angle, Mul(Add(Ebn1, Ebn2), Cos(zenith_angle))),
         dni_cs |-> NightZero(zenith_angle, Add(Ebn1, Ebn2)),
         dhi_cs |-> NightZero(zenith_angle, Add(Add(Add(Edp1, Edd1), Edp2), Edd2))]

\* REST2._clear_sky_irradiance at one timestep
clear_sky_irradiance(zenith_angle, band1_clear_sky, band2_clear_sky) ==
    LET c == clear_sky_components(zenith_angle, band1_clear_sky, band2_clear_sky)
        ghi_cs == Add(c.Ebh_cs, c.dhi_cs)
        ghi_tracker_cs == Add(c.dni_cs, c.dhi_cs)
    IN  [ghi_cs |-> QualityControl(ghi_cs),
         ghi_tracker_cs |-> QualityControl(ghi_tracker_cs),
         dni_cs |-> QualityControl(c.dni_cs),
         dhi_cs |-> QualityControl(c.dhi_cs)]

\* _cloud_sky_irradiance up to the diffuse horizontal irradiance
cloud_sky_components(zenith_angle, band1_cloud_sky, band2_cloud_sky) ==
    LET Ebn1_cloud == band1_cloud_sky.direct_beam
        Ebn2_cloud == band2_cloud_sky.direct_beam
        Edp1_cloud == band1_cloud_sky.diffuse_on_absorbing_ground
        Edp2_cloud == band2_cloud_sky.diffuse_on_absorbing_ground
        Edd1_cloud == band1_cloud_sky.multiple_reflections
        Edd2_cloud == band2_cloud_sky.multiple_reflections
    IN  [Ebh |-> NightZero(zenith_angle, Mul(Add(Ebn1_cloud, Ebn2_cloud), Cos(zenith_angle))),
         dni |-> NightZero(zenith_angle, Add(Ebn1_cloud, Ebn2_cloud)),
         dhi |-> NightZero(zenith_angle,
                           Add(Add(Add(Edp1_cloud, Edd1_cloud), Edp2_cloud), Edd2_cloud))]

\* the global horizontal irradiance summed from the direct normal irradiance
\* instead of the direct horizontal one
cloud_sky_irradiance_normal(zenith_angle, band1_cloud_sky, band2_cloud_sky) ==
    LET c == cloud_sky_components(zenith_angle, band1_cloud_sky, band2_cloud_sky)
        ghi == Add(c.dni, c.dhi)
        ghi_tracker == Add(c.dni, c.dhi)
    IN  [ghi |-> QualityControl(ghi),
         ghi_tracker |-> QualityControl(ghi_tracker),
         dni |-> QualityControl(c.dni),
         dhi |-> QualityControl(c.dhi)]

\* REST2._cloud_sky_irradiance at one timestep
cloud_sky_irradiance(zenith_angle, band1_cloud_sky, band2_cloud_sky) ==
    LET c == cloud_sky_components(zenith_angle, band1_cloud_sky, band2_cloud_sky)
        ghi == Add(c.Ebh, c.dhi)
        ghi_tracker == Add(c.dni, c.dhi)
    IN  [ghi |-> QualityControl(ghi),
         ghi_tracker |-> QualityControl(ghi_tracker),
         dni |-> QualityControl(c.dni),
         dhi |-> QualityControl(c.dhi)]

\* ------------------------------------------- the steps applied to arrays
\* self._evaluate_air_masses(zenith_angle, angstrom_exponent, pressure,
\* optical_depth_550nm) on the arrays of the instance
AirMassResults(self) ==
    LET lengths == {Len(self.zenith_angle), Len(self.angstrom_exponent), Len(self.pressure),
                    Len(self.optical_depth_550nm)}
    IN  IF ~Broadcastable(lengths) THEN [raised |-> "ValueError"]
        ELSE [raised |-> "",
              value |->
                [water_vapour_absorption |->
                     [i \in 1..Len(self.zenith_angle) |-> amw(self.zenith_angle[i])],
                 angstrom_turbidity |->
                     [i \in 1..BroadcastLen({Len(self.optical_depth_550nm),
                                              Len(self.angstrom_exponent)}) |->
                          angstrom_turbidity(At(self.optical_depth_550nm, i),
                                             At(self.angstrom_exponent, i))]]]

\* the NO2 transmittances returned by self._band_1_radiation for the NO2
\* column nitrogen_dioxide and the air masses of the instance
BandRadiationResults(self, nitrogen_dioxide) ==
    LET lengths == {Len(self.zenith_angle), Len(nitrogen_dioxide)}
    IN  IF AirMassResults(self).raised # "" \/ ~Broadcastable(ArrayLengths(self) \cup lengths)
        THEN [raised |-> "ValueError"]
        ELSE [raised |-> "",
              value |->
                [Tn |-> [i \in 1..BroadcastLen(lengths) |->
                            band_1_radiation(At(nitrogen_dioxide, i), At(self.water_vapour, i),
                                             At(self.zenith_angle, i),
                                             evaluate_air_masses(At(self.zenith_angle, i),
                                                                 At(self.angstrom_exponent, i),
                                                                 At(self.pressure, i),
                                                                 At(self.optical_depth_550nm, i))).Tn],
                 Tn166 |-> [i \in 1..Len(nitrogen_dioxide) |->
                            band_1_radiation(nitrogen_dioxide[i], At(self.water_vapour, i),
                                             At(self.zenith_angle, i),
                                             evaluate_air_masses(At(self.zenith_angle, i),
                                                                 At(self.angstrom_exponent, i),
                                                                 At(self.pressure, i),
                                                                 At(self.optical_depth_550nm, i))).Tn166]]]

\* ----------------------------------------------------- convert_radiation
\* the two bands' clear-sky and cloud-sky irradiance at timestep i
Bands(self, parameters, i) ==
    LET z == At(self.zenith_angle, i)
        w == At(self.water_vapour, i)
        e0 == At(self.extraterrestrial_radiation, i)
        rg == At(self.surface_albedo, i)
    IN  Only({Only({[band1 |-> band_1_irradiance(e0, z, rg, radiation1, tc),
                     band2 |-> band_2_irradiance(e0, z, rg, radiation2, tc)] :
                       radiation1 \in {band_1_radiation(At(self.nitrogen_dioxide, i), w, z, air_masses)},
                       radiation2 \in {band_2_radiation(w, z, air_masses)},
                       tc \in {cloud_transmittance(At(self.cod, i), parameters.mu0, parameters.g)}}) :
                air_masses \in {evaluate_air_masses(z, At(self.angstrom_exponent, i),
                                                     At(self.pressure, i),
                                                     At(self.optical_depth_550nm, i))}})

\* the eight values of timestep i
streams_at(self, parameters, i) ==
    Only({LET clear == clear_sky_irradiance(At(self.zenith_angle, i), b.band1.clear_sky,
                                            b.band2.clear_sky)
              cloud == cloud_sky_irradiance(At(self.zenith_angle, i), b.band1.cloud_sky,
                                            b.band2.cloud_sky)
          IN  [ghi |-> cloud.ghi, ghi_tracker |-> cloud.ghi_tracker, dni |-> cloud.dni,
               dhi |-> cloud.dhi, ghi_cs |-> clear.ghi_cs,
               ghi_tracker_cs |-> clear.ghi_tracker_cs,
               dni_cs |-> clear.dni_cs, dhi_cs |-> clear.dhi_cs] :
            b \in {Bands(self, parameters, i)}})

RECURSIVE streams_upto(_, _, _)
streams_upto(self, parameters, n) ==
    IF n = 0 THEN <<>>
    ELSE Append(streams_upto(self, parameters, n - 1), streams_at(self, parameters, n))

\* REST2._internal_convert_radiation: the exception numpy raises, or the
\* eight arrays
internal_convert_radiation(self, parameters) ==
    LET lengths == ArrayLengths(self)
        n == BroadcastLen(lengths)
    IN  IF ~Broadcastable(lengths) THEN [raised |-> "ValueError"]
        ELSE IF Len(self.zenith_angle) # n THEN [raised |-> "IndexError"]
        ELSE Only({[raised |-> "",
                    ghi |-> [i \in 1..n |-> rows[i].ghi],
                    ghi_tracker |-> [i \in 1..n |-> rows[i].ghi_tracker],
                    dni |-> [i \in 1..n |-> rows[i].dni],
                    dhi |-> [i \in 1..n |-> rows[i].dhi],
                    ghi_cs |-> [i \in 1..n |-> rows[i].ghi_cs],
                    ghi_tracker_cs |-> [i \in 1..n |-> rows[i].ghi_tracker_cs],
                    dni_cs |-> [i \in 1..n |-> rows[i].dni_cs],
                    dhi_cs |-> [i \in 1..n |-> rows[i].dhi_cs]] :
                  rows \in {streams_upto(self, parameters, n)}})

\* the values paired with the timestamps in the reverse order
postprocess_variable_reversed(self, variable) ==
    [i \in 1..Len(variable) |-> Row(self.time_steps[Len(variable) + 1 - i], variable[i])]

\* REST2._postprocess_variable: pl.DataFrame({"time": time_steps, "valor": variable})
postprocess_variable(self, variable) ==
    [i \in 1..Len(variable) |-> Row(self.time_steps[i], variable[i])]

StreamNames ==
    {"ghi", "ghi_tracker", "dni", "dhi", "ghi_cs", "ghi_tracker_cs", "dni_cs", "dhi_cs"}

\* REST2._postprocess_variables: the REST2Result
postprocess_variables(self, arrays) ==
    [name \in StreamNames |-> postprocess_variable(self, arrays[name])]

\* a conversion that also applies the night rule to the stored
\* extraterrestrial radiation in place
convert_radiation_in_place(self, parameters) ==
    Only({IF arrays.raised # "" THEN [raised |-> arrays.raised, self |-> self]
          ELSE IF Len(self.time_steps) # Len(arrays.ghi)
               THEN [raised |-> "ShapeError", self |-> self]
               ELSE Only({[raised |-> "",
                           self |-> [self EXCEPT
                                       !.result = Some(result),
                                       !.extraterrestrial_radiation =
                                           [i \in 1..Len(self.zenith_angle) |->
                                               NightZero(self.zenith_angle[i], @[i])]],
                           value |-> result] :
                         result \in {postprocess_variables(self, arrays)}}) :
            arrays \in {internal_convert_radiation(self, parameters)}})

\* REST2.convert_radiation: the exception, or the result, which the instance
\* also keeps in self.result
convert_radiation(self, parameters) ==
    Only({IF arrays.raised # "" THEN [raised |-> arrays.raised, self |-> self]
          ELSE IF Len(self.time_steps) # Len(arrays.ghi)
               THEN [raised |-> "ShapeError", self |-> self]
               ELSE Only({[raised |-> "", self |-> [self EXCEPT !.result = Some(result)],
                           value |-> result] :
                         result \in {postprocess_variables(self, arrays)}}) :
            arrays \in {internal_convert_radiation(self, parameters)}})

\* --------------------------------------------------------------- metrics
\* a metric value: NaN, or the exact quotient num / den
Ratio(n, d) == [nan |-> FALSE, num |-> n, den |-> d]

NaNRatio == [nan |-> TRUE, num |-> 0, den |-> 1]

RECURSIVE SumSeq(_)
SumSeq(s) == IF s = <<>> THEN 0 ELSE Head(s) + SumSeq(Tail(s))

\* np.mean of an array without NaN (NaN for an empty array)
Mean(errors) == IF errors = <<>> THEN NaNRatio ELSE Ratio(SumSeq(errors), Len(errors))

\* predictions - targets, with numpy's broadcasting of a one-element array
Errors(predictions, targets) ==
    LET n == IF Len(predictions) >= Len(targets) THEN Len(predictions) ELSE Len(targets)
    IN  [i \in 1..n |-> Sub(At(predictions, i), At(targets, i))]

\* a NaN error kept as an error of 0
RECURSIVE KeepNaNAsZero(_)
KeepNaNAsZero(errors) ==
    IF errors = <<>> THEN <<>>
    ELSE <<IF Head(errors).nan THEN 0 ELSE Head(errors).v>> \o KeepNaNAsZero(Tail(errors))

\* errors[~np.isnan(errors)], as integers
RECURSIVE DropNaN(_)
DropNaN(errors) ==
    IF errors = <<>> THEN <<>>
    ELSE IF Head(errors).nan THEN DropNaN(Tail(errors))
    ELSE <<Head(errors).v>> \o DropNaN(Tail(errors))

me(predictions, targets) == Mean(DropNaN(Errors(predictions, targets)))

mae(predictions, targets) ==
    LET errors == Errors(predictions, targets)
    IN  Mean(DropNaN([i \in 1..Len(errors) |-> Abs(errors[i])]))

\* the value under the square root of rmse: np.sqrt is applied to this mean
rmse_squared(predictions, targets) ==
    LET errors == DropNaN(Errors(predictions, targets))
    IN  Mean([i \in 1..Len(errors) |-> errors[i] * errors[i]])

\* ------------------------------------------------- choice of the stream
\* a name that is not known answered with the direct normal irradiance
choose_radiation_or_dni(result, radiation_type) ==
    IF radiation_type = "dni_cs" THEN [raised |-> "", value |-> result.dni_cs]
    ELSE IF radiation_type = "ghi" THEN [raised |-> "", value |-> result.ghi]
    ELSE IF radiation_type = "ghi_cs" THEN [raised |-> "", value |-> result.ghi_cs]
    ELSE IF radiation_type = "ghi_tracker" THEN [raised |-> "", value |-> result.ghi_tracker]
    ELSE IF radiation_type = "ghi_tracker_cs" THEN [raised |-> "", value |-> result.ghi_tracker_cs]
    ELSE [raised |-> "", value |-> result.dni]

\* REST2._choose_radiation_for_metric
choose_radiation_for_metric(result, radiation_type) ==
    IF radiation_type = "dni" THEN [raised |-> "", value |-> result.dni]
    ELSE IF radiation_type = "dni_cs" THEN [raised |-> "", value |-> result.dni_cs]
    ELSE IF radiation_type = "ghi" THEN [raised |-> "", value |-> result.ghi]
    ELSE IF radiation_type = "ghi_cs" THEN [raised |-> "", value |-> result.ghi_cs]
    ELSE IF radiation_type = "ghi_tracker" THEN [raised |-> "", value |-> result.ghi_tracker]
    ELSE IF radiation_type = "ghi_tracker_cs" THEN [raised |-> "", value |-> result.ghi_tracker_cs]
    ELSE [raised |-> "ValueError"]

\* REST2Result.get
REST2Result_get(result, radiation_type) ==
    IF radiation_type = "ghi" THEN [raised |-> "", value |-> result.ghi]
    ELSE IF radiation_type = "dni" THEN [raised |-> "", value |-> result.dni]
    ELSE IF radiation_type = "dhi" THEN [raised |-> "", value |-> result.dhi]
    ELSE IF radiation_type = "ghi_tracker" THEN [raised |-> "", value |-> result.ghi_tracker]
    ELSE [raised |-> "ValueError"]

\* REST2.evaluate: the exception, or the metrics mapping
evaluate(result, measured, radiation_type) ==
    LET chosen_radiation == choose_radiation_for_metric(result, radiation_type)
        m == Column(measured, "valor")
    IN  IF chosen_radiation.raised # "" THEN [raised |-> chosen_radiation.raised]
        ELSE LET c == Column(chosen_radiation.value, "valor")
             IN  IF ~Broadcastable({Len(m), Len(c)}) THEN [raised |-> "ValueError"]
                 ELSE [raised |-> "",
                       metrics |-> [ME |-> me(m, c), MAE |-> mae(m, c),
                                    RMSE2 |-> rmse_squared(m, c)]]

\* ------------------------------------------------------------------ train
\* the points (mu0, g) that the minimizer can visit
Iterates == {<<mu0, g>> : mu0 \in {0, 9500}, g \in {500, 850}}

\* parameter_keys = ["mu0", "g"]; {parameter_keys[i]: params[i]}
params_dict(params) == [mu0 |-> params[1], g |-> params[2]]

\* [DEFAULT_PARAMETERS[key] for key in parameter_keys]
parameter_initial_values == <<DEFAULT_PARAMETERS.mu0, DEFAULT_PARAMETERS.g>>

\* the objective f(params) of train: the exception it raises, or the RMSE
\* (squared) of the measured series against the chosen stream
objective(self, measured, radiation_type, params) ==
    Only({IF conv.raised # "" THEN [raised |-> conv.raised]
          ELSE LET chosen_radiation == choose_radiation_for_metric(conv.value, radiation_type)
               IN  IF chosen_radiation.raised # "" THEN [raised |-> chosen_radiation.raised]
                   ELSE IF ~Broadcastable({Len(measured), Len(chosen_radiation.value)})
                        THEN [raised |-> "ValueError"]
                        ELSE [raised |-> "",
                              value |-> rmse_squared(Column(measured, "valor"),
                                                     Column(chosen_radiation.value, "valor"))] :
            conv \in {convert_radiation(self, params_dict(params))}})

\* f over the points the minimizer can visit
objective_table(self, measured, radiation_type) ==
    [params \in Iterates |-> objective(self, measured, radiation_type, params)]

\* a <= b for two objective values; false when either is NaN
NotAbove(a, b) == ~a.nan /\ ~b.nan /\ a.num * b.den <= b.num * a.den

\* f does not depend on coordinate k
Flat(f, k) ==
    \A x \in Iterates, y \in Iterates :
        (\A j \in 1..2 : j # k => x[j] = y[j]) => f[x].value = f[y].value

\* scipy.optimize.minimize(f, x0, method="BFGS"): a descent from x0 along the
\* gradient of f. The final iterate is x0 or a point where f is not above
\* f(x0), and it differs from x0 only in coordinates that f depends on; the
\* success flag says whether the gradient tolerance was met.
minimize(f, x0) ==
    {[x |-> x, success |-> success] :
        x \in {x \in Iterates :
                  \/ x = x0
                  \/ /\ NotAbove(f[x].value, f[x0].value)
                     /\ \A k \in 1..2 : x[k] # x0[k] => ~Flat(f, k)},
        success \in BOOLEAN}

\* a train that reports a minimization that did not converge
train_checked(f, res) ==
    IF ~res.success THEN [raised |-> "RuntimeError"]
    ELSE [raised |-> "", value |-> [mu0 |-> res.x[1], g |-> res.x[2]]]

\* REST2.train, given the objective f and the OptimizeResult res of minimize:
\* {parameter_keys[i]: res.x[i]}
train(f, res) == [raised |-> "", value |-> [mu0 |-> res.x[1], g |-> res.x[2]]]

\* ------------------------------------------------------------ the inputs
FirstWindow(n) == [i \in 1..n |-> i]

\* every variable over the same window
AlignedInputs == {LocationInputData(d, ts) : d \in Datasets, ts \in TimeWindows}

\* one variable over a window of another length
MisalignedInputs ==
    {WithFrame(LocationInputData(2, FirstWindow(n)), var, Frame(2, var, FirstWindow(k))) :
        n \in 1..MaxLen, k \in 1..(MaxLen + 1), var \in VariableNames} \ AlignedInputs

\* files whose rows are not in the order of their timestamps
Reversed(w) == [i \in 1..Len(w) |-> w[Len(w) + 1 - i]]

UnsortedInputs == {LocationInputData(2, Reversed(ts)) : ts \in TimeWindows}

LocationInputs ==
    AlignedInputs \cup MisalignedInputs \cup UnsortedInputs
        \cup {WithoutAngstrom(LocationInputData(1, ts)) : ts \in TimeWindows}

Parameters == {DEFAULT_PARAMETERS, [mu0 |-> 0, g |-> 500], [mu0 |-> 9500, g |-> 850]}

RadiationTypes == StreamNames \cup {"gti", ""}

Offsets == {0, 50, 0 - 30}

\* the measured series for a calibration: the stream that convert_radiation
\* gives for the parameters truth on the same inputs
TrainingSeries(self, truth, radiation_type) ==
    Only({IF conv.raised # ""
          THEN [i \in 1..Len(self.time_steps) |-> Row(self.time_steps[i], Zero)]
          ELSE IF radiation_type \in StreamNames THEN conv.value[radiation_type]
          ELSE conv.value.dni :
            conv \in {convert_radiation(self, params_dict(truth))}})

\* the radiation types asked of train: those it supports and one it does not
TrainedTypes == {"dni", "dni_cs", "ghi", "ghi_cs", "ghi_tracker", "ghi_tracker_cs", "gti"}

\* NO2 columns passed to _band_1_radiation: inside the bounds that the
\* constructor applies, below them, and missing
NitrogenDioxideColumns == {<<Num(0 - 5)>>, <<Num(0 - 1)>>, <<Zero>>, <<Num(2)>>, <<NaN>>}

\* a measured frame at the timestamps of the stream moved by shift slots, its
\* values those of the stream minus d (0 where the stream is missing)
MeasuredFrom(stream, d, shift) ==
    [i \in 1..Len(stream) |->
        Row(stream[i].time + shift,
            IF stream[i].valor.nan THEN Num(0) ELSE Num(stream[i].valor.v - d))]

\* the measured frames tried against a result: read_measured_for_plant gives
\* a frame of rows (time, valor) for the window asked for
MeasuredFrames(result, radiation_type) ==
    LET stream == IF radiation_type \in StreamNames THEN result[radiation_type] ELSE result.dni
        last == stream[Len(stream)]
    IN  {MeasuredFrom(stream, d, 0) : d \in Offsets}
          \cup {MeasuredFrom(stream, 0, 1)}
          \cup {[MeasuredFrom(stream, 50, 0) EXCEPT ![1].valor = NaN]}
          \cup {SubSeq(MeasuredFrom(stream, 50, 0), 1, 1)}
          \cup {Append(MeasuredFrom(stream, 0, 0), Row(last.time + 1, Num(100)))}

\* ------------------------------------------------------ the state machine
\* ---------------------------------------------------------------- storage
\* a path is the sequence of the pieces of its text
StartsWith(s, prefix) == Len(prefix) <= Len(s) /\ SubSeq(s, 1, Len(prefix)) = prefix

\* the paths asked of the factory and given to the readers
StoragePaths ==
    {<<"data", "/", "input">>, <<"/", "tmp">>, <<"s3://", "bucket", "/", "input">>,
     <<"s3://", "other", "/", "b">>, <<"S3://", "bucket", "/", "input">>}

\* StorageFactory without cached backends
NoBackends == [local_backend |-> None, s3_backend |-> None]

\* StorageFactory.get_storage; fresh is the backend that LocalBackend() or
\* S3Backend() would create
get_storage(cls, path, fresh) ==
    IF StartsWith(path, <<"s3://">>)
    THEN IF cls.s3_backend.none
         THEN [cls |-> [cls EXCEPT !.s3_backend = Some(fresh)], value |-> fresh]
         ELSE [cls |-> cls, value |-> cls.s3_backend.val]
    ELSE IF cls.local_backend.none
         THEN [cls |-> [cls EXCEPT !.local_backend = Some(fresh)], value |-> fresh]
         ELSE [cls |-> cls, value |-> cls.local_backend.val]

\* a clear_cache that forgets the local backend only
clear_cache_local(cls) == [cls EXCEPT !.local_backend = None]

\* StorageFactory.clear_cache
clear_cache(cls) == [cls EXCEPT !.local_backend = None, !.s3_backend = None]

\* the files written, by their path below the working directory and by
\* their key in the bucket
FilePaths ==
    {<<"data", "/", "a", ".parquet">>, <<"data", "/", "b", ".json">>,
     <<"data", "/", "sub", "/", "c", ".parquet">>, <<"data", "2", "/", "d", ".parquet">>}

\* the directories listed and the patterns asked for
ListedPaths == {<<"data">>, <<"data", "/">>, <<"logs">>}

Patterns == {<<"*">>, <<"*", ".parquet">>}

\* s.rstrip("/")
RECURSIVE rstrip(_)
rstrip(s) == IF s # <<>> /\ s[Len(s)] = "/" THEN rstrip(SubSeq(s, 1, Len(s) - 1)) ELSE s

\* pattern.replace("*", "")
without_star(pattern) == SelectSeq(pattern, LAMBDA piece : piece # "*")

\* fnmatch of a name against a pattern
RECURSIVE fnmatch(_, _)
fnmatch(name, pattern) ==
    IF pattern = <<>> THEN name = <<>>
    ELSE IF Head(pattern) = "*"
         THEN \E k \in 0..Len(name) : fnmatch(SubSeq(name, k + 1, Len(name)), Tail(pattern))
         ELSE name # <<>> /\ Head(name) = Head(pattern) /\ fnmatch(Tail(name), Tail(pattern))

\* the part of a path up to its first "/"
RECURSIVE first_part(_)
first_part(s) == IF s = <<>> \/ Head(s) = "/" THEN <<>> ELSE <<Head(s)>> \o first_part(Tail(s))

\* the names of the entries (files and directories) of directory dir
entries(stored, dir) ==
    {first_part(SubSeq(f, Len(dir) + 2, Len(f))) : f \in {f \in stored : StartsWith(f, dir \o <<"/">>)}}

\* LocalBackend.list_files
local_list_files(stored, path, pattern) ==
    LET path_obj == rstrip(path)
    IN  IF path_obj \notin stored /\ entries(stored, path_obj) = {} THEN {}
        ELSE {path_obj \o <<"/">> \o name :
                name \in {name \in entries(stored, path_obj) : fnmatch(name, pattern)}}

\* S3Backend._parse_s3_uri: re.match(r"s3://([^/]+)/(.*)", path)
parse_s3_uri(path) ==
    IF Len(path) >= 3 /\ path[1] = "s3://" /\ path[2] # "/" /\ path[3] = "/"
    THEN [raised |-> "", bucket |-> path[2], key |-> SubSeq(path, 4, Len(path))]
    ELSE [raised |-> "ValueError"]

\* S3Backend.list_files: the keys that start with the prefix
s3_list_files(stored, path, pattern) ==
    LET uri == parse_s3_uri(path)
    IN  IF uri.raised # "" THEN [raised |-> uri.raised]
        ELSE LET prefix == IF pattern # <<"*">>
                           THEN rstrip(uri.key) \o <<"/">> \o without_star(pattern)
                           ELSE uri.key
             IN  [raised |-> "",
                  value |-> {<<"s3://", uri.bucket, "/">> \o key :
                               key \in {key \in stored : StartsWith(key, prefix)}}]

\* ---------------------------------------------------------------- readers
\* rows of a forecast file: the time forecast (data_hora_previsao) and the
\* time of the run (data_hora_rodada), both in units of 12 hours
ForecastRows ==
    {[data_hora_previsao |-> p, data_hora_rodada |-> r, valor |-> Num(v)] :
        p \in 0..MaxTime, r \in {0, 1}, v \in {100, 200}}

RECURSIVE SeqsUpTo(_, _)
SeqsUpTo(S, n) ==
    IF n = 0 THEN {<<>>}
    ELSE SeqsUpTo(S, n - 1)
           \cup {Append(w, x) : w \in {w \in SeqsUpTo(S, n - 1) : Len(w) = n - 1}, x \in S}

ForecastFrames == SeqsUpTo(ForecastRows, MaxLen)

ForecastingDays == {0 - 1, 0, 1}

\* dia_previsao: floor of the days between the run and the forecast
dia_previsao(row) == (row.data_hora_previsao - row.data_hora_rodada) \div 2

\* df.filter(dia_previsao == forecasting_day), without data_hora_rodada and
\* with data_hora_previsao renamed to time
filtered(df, forecasting_day) ==
    LET kept == SelectSeq(df, LAMBDA row : dia_previsao(row) = forecasting_day)
    IN  [i \in 1..Len(kept) |-> Row(kept[i].data_hora_previsao, kept[i].valor)]

\* df.unique(subset=["time"]): one row of each time; maintain_order is
\* False, so the rows come in an order that polars does not fix
unique(df) ==
    LET rows == {df[i] : i \in 1..Len(df)}
        times == {row.time : row \in rows}
    IN  {out \in [1..Cardinality(times) -> rows] :
            \A i \in DOMAIN out, j \in DOMAIN out : i # j => out[i].time # out[j].time}

\* InputData.filter_forecasting_day: the frames it can return
filter_forecasting_day(df, forecasting_day) ==
    unique(SortByTime(filtered(df, forecasting_day)))

\* InputData.__init__: the attributes of the new reader
InputDataInit(path) == [path |-> path]

VARIABLES location_data, rest2, ret, factory, instances, calls, files

vars == <<location_data, rest2, ret, factory, instances, calls, files>>

\* the state of the storage layer
storage == <<factory, instances, calls, files>>

Init ==
    /\ location_data = None
    /\ rest2 = None
    /\ ret = [op |-> "none"]
    /\ factory = NoBackends
    /\ instances = 0
    /\ calls = <<>>
    /\ files = {}

\* rest2 = REST2(location_data); one instance is live at a time
Construct(loc) ==
    /\ rest2.none
    /\ \E r \in {REST2Init(loc)} :
           /\ location_data' = Some(loc)
           /\ rest2' = IF r.raised = "" THEN Some(r.self) ELSE None
           /\ ret' = [op |-> "REST2", raised |-> r.raised]
    /\ UNCHANGED storage

\* the instance goes out of scope when the caller returns
Discard ==
    /\ ~rest2.none
    /\ location_data' = None
    /\ rest2' = None
    /\ ret' = [op |-> "none"]
    /\ UNCHANGED storage

\* rest2.convert_radiation(parameters)
ConvertRadiation(parameters) ==
    /\ ~rest2.none
    /\ \E r \in {convert_radiation(rest2.val, parameters)} :
           /\ rest2' = Some(r.self)
           /\ ret' = [op |-> "convert_radiation", parameters |-> parameters,
                      raised |-> r.raised]
    /\ UNCHANGED location_data
    /\ UNCHANGED storage

\* rest2.evaluate(rest2.result, measured, radiation_type)
Evaluate(radiation_type) ==
    /\ ~rest2.none
    /\ ~rest2.val.result.none
    /\ \E measured \in MeasuredFrames(rest2.val.result.val, radiation_type) :
          \E r \in {evaluate(rest2.val.result.val, measured, radiation_type)} :
              ret' = [op |-> "evaluate", radiation_type |-> radiation_type,
                      measured |-> measured, raised |-> r.raised,
                      metrics |-> IF r.raised = "" THEN Some(r.metrics) ELSE None]
    /\ UNCHANGED <<location_data, rest2>>
    /\ UNCHANGED storage

\* rest2.result.get(radiation_type)
Get(radiation_type) ==
    /\ ~rest2.none
    /\ ~rest2.val.result.none
    /\ \E r \in {REST2Result_get(rest2.val.result.val, radiation_type)} :
           ret' = [op |-> "get", radiation_type |-> radiation_type, raised |-> r.raised,
                   value |-> IF r.raised = "" THEN Some(r.value) ELSE None]
    /\ UNCHANGED <<location_data, rest2>>
    /\ UNCHANGED storage

\* rest2._evaluate_air_masses(rest2.zenith_angle, rest2.angstrom_exponent,
\* rest2.pressure, rest2.optical_depth_550nm)
EvaluateAirMasses ==
    /\ ~rest2.none
    /\ \E r \in {AirMassResults(rest2.val)} :
           ret' = [op |-> "_evaluate_air_masses", raised |-> r.raised,
                   value |-> IF r.raised = "" THEN Some(r.value) ELSE None]
    /\ UNCHANGED <<location_data, rest2>>
    /\ UNCHANGED storage

\* rest2._band_1_radiation(rest2.ozone, nitrogen_dioxide, rest2.water_vapour,
\* rest2.angstrom_exponent, rest2.zenith_angle, air_masses)
Band1Radiation(nitrogen_dioxide) ==
    /\ ~rest2.none
    /\ \E r \in {BandRadiationResults(rest2.val, nitrogen_dioxide)} :
           ret' = [op |-> "_band_1_radiation", nitrogen_dioxide |-> nitrogen_dioxide,
                   raised |-> r.raised,
                   value |-> IF r.raised = "" THEN Some(r.value) ELSE None]
    /\ UNCHANGED <<location_data, rest2>>
    /\ UNCHANGED storage

\* rest2.train(measured, radiation_type) on a new instance, as
\* TrainManager._train_rest2 calls it; last is the point of the last evaluation of
\* f, whose result the instance keeps
Train(truth, radiation_type) ==
    /\ ~rest2.none
    /\ rest2.val.result.none
    /\ \E measured \in {TrainingSeries(rest2.val, truth, radiation_type)} :
         \E f \in {objective_table(rest2.val, measured, radiation_type)} :
            IF f[parameter_initial_values].raised # ""
            THEN /\ rest2' = Some(convert_radiation(rest2.val, DEFAULT_PARAMETERS).self)
                 /\ ret' = [op |-> "train", radiation_type |-> radiation_type, truth |-> truth,
                            measured |-> measured, x0 |-> parameter_initial_values,
                            raised |-> f[parameter_initial_values].raised]
            ELSE \E res \in minimize(f, parameter_initial_values), last \in Iterates :
                   \E r \in {train(f, res)} :
                     /\ rest2' = Some(convert_radiation(rest2.val, params_dict(last)).self)
                     /\ ret' = [op |-> "train", radiation_type |-> radiation_type,
                                truth |-> truth, measured |-> measured,
                                x0 |-> parameter_initial_values, res |-> res,
                                raised |-> r.raised,
                                value |-> IF r.raised = "" THEN Some(r.value) ELSE None]
    /\ UNCHANGED location_data
    /\ UNCHANGED storage

Next ==
    \/ \E loc \in LocationInputs : Construct(loc)
    \/ Discard
    \/ \E parameters \in Parameters : ConvertRadiation(parameters)
    \/ \E radiation_type \in RadiationTypes : Evaluate(radiation_type)
    \/ \E radiation_type \in RadiationTypes : Get(radiation_type)
    \/ EvaluateAirMasses
    \/ \E nitrogen_dioxide \in NitrogenDioxideColumns : Band1Radiation(nitrogen_dioxide)

Spec == Init /\ [][Next]_vars

\* calibration: TrainManager._train_rest2 builds an instance and trains it
NextTrain ==
    \/ \E loc \in LocationInputs : Construct(loc)
    \/ Discard
    \/ \E truth \in Iterates, radiation_type \in TrainedTypes : Train(truth, radiation_type)

SpecTrain == Init /\ [][NextTrain]_vars

\* StorageFactory.get_storage(path)
GetStorage(path) ==
    /\ Len(calls) < MaxCalls
    /\ \E r \in {get_storage(factory, path, instances + 1)} :
           /\ factory' = r.cls
           /\ instances' = IF r.cls = factory THEN instances ELSE instances + 1
           /\ calls' = Append(calls, [op |-> "get_storage", path |-> path, value |-> r.value])
           /\ ret' = [op |-> "get_storage", path |-> path, value |-> r.value]
    /\ UNCHANGED <<location_data, rest2, files>>

\* StorageFactory.clear_cache()
ClearCache ==
    /\ Len(calls) < MaxCalls
    /\ factory' = clear_cache(factory)
    /\ calls' = Append(calls, [op |-> "clear_cache"])
    /\ ret' = [op |-> "clear_cache"]
    /\ UNCHANGED <<location_data, rest2, instances, files>>

\* write_bytes(data, path) on both backends: the file is in the working
\* directory and in the bucket
WriteBytes(path) ==
    /\ path \notin files
    /\ files' = files \cup {path}
    /\ ret' = [op |-> "write_bytes", path |-> path]
    /\ UNCHANGED <<location_data, rest2, factory, instances, calls>>

\* list_files(path, pattern) on both backends
ListFiles(path, pattern) ==
    /\ \E r \in {s3_list_files(files, <<"s3://", "bucket", "/">> \o path, pattern)} :
           ret' = [op |-> "list_files", path |-> path, pattern |-> pattern,
                   local |-> local_list_files(files, path, pattern),
                   raised |-> r.raised,
                   s3 |-> IF r.raised = "" THEN r.value ELSE {}]
    /\ UNCHANGED <<location_data, rest2, storage>>

\* reader = InputData(path)
NewInputData(path) ==
    /\ ret' = [op |-> "InputData", path |-> path, value |-> InputDataInit(path)]
    /\ UNCHANGED <<location_data, rest2, storage>>

\* nothing has been called yet: a behaviour of a function without state is
\* one call of it
FirstCall == ret.op = "none"

\* InputData.filter_forecasting_day(df, forecasting_day)
FilterForecastingDay(df, forecasting_day) ==
    /\ FirstCall
    /\ \E value \in filter_forecasting_day(df, forecasting_day) :
           ret' = [op |-> "filter_forecasting_day", df |-> df,
                   forecasting_day |-> forecasting_day, value |-> value]
    /\ UNCHANGED <<location_data, rest2, storage>>

NextReaders ==
    \E df \in ForecastFrames, forecasting_day \in ForecastingDays :
        FilterForecastingDay(df, forecasting_day)

SpecReaders == Init /\ [][NextReaders]_vars

NextStorage ==
    \/ \E path \in StoragePaths : GetStorage(path)
    \/ ClearCache
    \/ \E path \in FilePaths : WriteBytes(path)
    \/ \E path \in ListedPaths, pattern \in Patterns : ListFiles(path, pattern)
    \/ \E path \in StoragePaths : NewInputData(path)

SpecStorage == Init /\ [][NextStorage]_vars

\* ------------------------------------------------------------ properties
\* the instance has converted without raising: its arrays combine
Converted == ~rest2.none /\ ~rest2.val.result.none

\* the timesteps of the instance
Timesteps == 1..Len(rest2.val.zenith_angle)

Night(i) == At(rest2.val.zenith_angle, i) > 90

\* C1: in _clear_sky_irradiance and _cloud_sky_irradiance, at every timestep
\* whose zenith angle exceeds 90 degrees the direct normal, direct horizontal
\* and diffuse horizontal irradiance are exactly 0 before they are summed into
\* GHI and tracker GHI and before quality control, whatever the bands hold.
C1_NightComponentsAreZero ==
    Converted =>
        \A parameters \in Parameters, i \in Timesteps :
            Night(i) =>
                \E b \in {Bands(rest2.val, parameters, i)} :
                    LET z == At(rest2.val.zenith_angle, i)
                        clear == clear_sky_components(z, b.band1.clear_sky, b.band2.clear_sky)
                        cloud == cloud_sky_components(z, b.band1.cloud_sky, b.band2.cloud_sky)
                    IN  /\ clear.Ebh_cs = Zero /\ clear.dni_cs = Zero /\ clear.dhi_cs = Zero
                        /\ cloud.Ebh = Zero /\ cloud.dni = Zero /\ cloud.dhi = Zero

\* a conversion has returned for an instance with a night timestep whose
\* bands hold a direct beam and a diffuse part that are not 0
C1_Witness ==
    /\ Converted
    /\ ret.op = "convert_radiation"
    /\ ret.raised = ""
    /\ \E i \in Timesteps :
          /\ Night(i)
          /\ \E b \in {Bands(rest2.val, ret.parameters, i)} :
                /\ b.band1.cloud_sky.direct_beam \notin {Zero, NaN}
                /\ b.band1.clear_sky.diffuse_on_absorbing_ground \notin {Zero, NaN}


\* the value of a stream of the instance's result at timestep i
Value(name, i) == rest2.val.result.val[name][i].valor

CosZenith(i) == Cos(At(rest2.val.zenith_angle, i))

\* C2 as stated: at every timestep of the series returned by
\* convert_radiation, ghi = dni * cos(zenith) + dhi for the cloud-sky streams
\* and ghi_cs = dni_cs * cos(zenith) + dhi_cs for the clear-sky streams, for
\* any inputs and any (mu0, g).
C2_AsStated ==
    Converted =>
        \A i \in Timesteps :
            /\ Value("ghi", i) = Add(Mul(Value("dni", i), CosZenith(i)), Value("dhi", i))
            /\ Value("ghi_cs", i)
                   = Add(Mul(Value("dni_cs", i), CosZenith(i)), Value("dhi_cs", i))

\* C2, amended: the same equalities at every timestep where the returned
\* direct normal and diffuse horizontal values of the stream are both present
\* (quality control has replaced neither by NaN and neither is NaN from the
\* inputs).
C2_AdditiveWherePresent ==
    Converted =>
        \A i \in Timesteps :
            /\ (~Value("dni", i).nan /\ ~Value("dhi", i).nan)
                  => Value("ghi", i) = Add(Mul(Value("dni", i), CosZenith(i)), Value("dhi", i))
            /\ (~Value("dni_cs", i).nan /\ ~Value("dhi_cs", i).nan)
                  => Value("ghi_cs", i)
                         = Add(Mul(Value("dni_cs", i), CosZenith(i)), Value("dhi_cs", i))

\* a conversion has returned a daytime timestep under cloud whose direct and
\* diffuse values are present and above 0 in both streams
C2_Witness ==
    /\ Converted
    /\ ret.op = "convert_radiation"
    /\ \E i \in Timesteps :
          /\ ~Night(i)
          /\ At(rest2.val.cod, i) # Zero
          /\ \A name \in {"dni", "dhi", "dni_cs", "dhi_cs"} : Greater(Value(name, i), Zero)
          /\ Value("ghi", i) # Value("ghi_tracker", i)

\* the four series of a stream before quality control, from its components
BeforeQualityControl(Ebh, dni, dhi) ==
    [ghi |-> Add(Ebh, dhi), ghi_tracker |-> Add(dni, dhi), dni |-> dni, dhi |-> dhi]

SeriesNames == {"ghi", "ghi_tracker", "dni", "dhi"}

\* what quality control after the night rule gives: a value below 0 becomes
\* NaN, every value is NaN or at least 0, and a night timestep is exactly 0
ControlledAfterNight(night, before, after) ==
    \A name \in SeriesNames :
        /\ Less(before[name], Zero) => after[name] = NaN
        /\ after[name] = NaN \/ ~Less(after[name], Zero)
        /\ night => after[name] = Zero

\* C3: quality control runs after the night rule in the clear-sky and the
\* cloud-sky stream: every GHI, tracker GHI, DNI or DHI value below 0 becomes
\* NaN and is never clipped to 0, every output value is NaN or at least 0, and
\* a timestep with zenith above 90 degrees ends as exactly 0 in all four
\* series of each stream.
C3_QualityControlAfterNight ==
    Converted =>
        \A parameters \in Parameters, i \in Timesteps :
            \E b \in {Bands(rest2.val, parameters, i)} :
                LET z == At(rest2.val.zenith_angle, i)
                    clear == clear_sky_components(z, b.band1.clear_sky, b.band2.clear_sky)
                    cloud == cloud_sky_components(z, b.band1.cloud_sky, b.band2.cloud_sky)
                    clear_out == clear_sky_irradiance(z, b.band1.clear_sky, b.band2.clear_sky)
                    cloud_out == cloud_sky_irradiance(z, b.band1.cloud_sky, b.band2.cloud_sky)
                IN  /\ ControlledAfterNight(
                           Night(i),
                           BeforeQualityControl(clear.Ebh_cs, clear.dni_cs, clear.dhi_cs),
                           [ghi |-> clear_out.ghi_cs, ghi_tracker |-> clear_out.ghi_tracker_cs,
                            dni |-> clear_out.dni_cs, dhi |-> clear_out.dhi_cs])
                    /\ ControlledAfterNight(
                           Night(i), BeforeQualityControl(cloud.Ebh, cloud.dni, cloud.dhi),
                           cloud_out)
                    /\ \A name \in StreamNames :
                           /\ Value(name, i) = NaN \/ ~Less(Value(name, i), Zero)
                           /\ Night(i) => Value(name, i) = Zero

\* a conversion has returned a night timestep, 0 in every series, and a
\* daytime timestep whose diffuse irradiance was below 0 and is NaN
C3_Witness ==
    /\ Converted
    /\ ret.op = "convert_radiation"
    /\ \E i \in Timesteps : Night(i) /\ \A name \in StreamNames : Value(name, i) = Zero
    /\ \E i \in Timesteps :
          /\ ~Night(i)
          /\ Value("dhi", i) = NaN
          /\ \E b \in {Bands(rest2.val, ret.parameters, i)} :
                Less(cloud_sky_components(At(rest2.val.zenith_angle, i), b.band1.cloud_sky,
                                          b.band2.cloud_sky).dhi, Zero)

\* evaluate has returned a metrics mapping
Evaluated == ret.op = "evaluate" /\ ret.raised = ""

\* the model series evaluate compared: the stream of the REST2Result named by
\* the radiation type of the call
ModelSeries == rest2.val.result.val[ret.radiation_type]

\* the model series is the measured one plus d at every timestep: the same
\* timestamps, no value missing
ModelIsMeasuredPlus(d) ==
    /\ Column(ModelSeries, "time") = Column(ret.measured, "time")
    /\ \A i \in 1..Len(ModelSeries) :
          /\ ~ModelSeries[i].valor.nan
          /\ ~ret.measured[i].valor.nan
          /\ ModelSeries[i].valor.v = ret.measured[i].valor.v + d

\* a metric is the number x
MetricIs(metric, x) == ~metric.nan /\ metric.num = x * metric.den

\* C4 as stated: evaluate returns ME = MAE = RMSE = 0 when the model series
\* equals the measured series at every timestep, and ME = d, MAE = |d| and
\* RMSE = |d| when the model series equals measured + d at every timestep.
C4_AsStated ==
    Evaluated =>
        \A d \in Offsets :
            ModelIsMeasuredPlus(d) =>
                /\ MetricIs(ret.metrics.val.ME, d)
                /\ MetricIs(ret.metrics.val.MAE, IF d < 0 THEN 0 - d ELSE d)
                /\ MetricIs(ret.metrics.val.RMSE2, d * d)

\* the metrics of the measured series against a model series of its length
MetricsAgainst(series) ==
    [ME |-> me(Column(ret.measured, "valor"), Column(series, "valor")),
     MAE |-> mae(Column(ret.measured, "valor"), Column(series, "valor")),
     RMSE2 |-> rmse_squared(Column(ret.measured, "valor"), Column(series, "valor"))]

\* C5 as stated: evaluate accepts every radiation type in {ghi, dni, dhi,
\* ghi_tracker, ghi_cs, dni_cs, dhi_cs, ghi_tracker_cs} and compares the
\* measured series against the series of that name in the REST2Result.
C5_AsStated ==
    (/\ ret.op = "evaluate"
     /\ ret.radiation_type \in StreamNames
     /\ Len(ret.measured) = Len(ModelSeries))
        => /\ ret.raised = ""
           /\ ret.metrics = Some(MetricsAgainst(ModelSeries))

\* the names _choose_radiation_for_metric knows
ChosenNames == {"dni", "dni_cs", "ghi", "ghi_cs", "ghi_tracker", "ghi_tracker_cs"}

\* measured - model at the timestamps from index i on that both series hold
RECURSIVE JoinedErrors(_)
JoinedErrors(i) ==
    IF i > Len(ModelSeries) THEN <<>>
    ELSE LET rows == {j \in 1..Len(ret.measured) : ret.measured[j].time = ModelSeries[i].time}
         IN  (IF rows = {} THEN <<>>
              ELSE <<Sub(ret.measured[CHOOSE j \in rows : TRUE].valor, ModelSeries[i].valor)>>)
                 \o JoinedErrors(i + 1)

\* C6 as stated: evaluate matches the measured series to the model series by
\* timestamp: the error at a timestamp is computed from the measured and the
\* model value at that timestamp, and a timestamp held by only one of the two
\* series contributes no error term.
C6_AsStated ==
    (ret.op = "evaluate" /\ ret.radiation_type \in ChosenNames)
        => /\ ret.raised = ""
           /\ LET errors == JoinedErrors(1)
                   kept == DropNaN(errors)
               IN  ret.metrics
                       = Some([ME |-> Mean(kept),
                               MAE |-> Mean([i \in 1..Len(kept) |->
                                                IF kept[i] < 0 THEN 0 - kept[i] ELSE kept[i]]),
                               RMSE2 |-> Mean([i \in 1..Len(kept) |-> kept[i] * kept[i]])])

\* the lengths of the variables of the LocationInputData
InputLengths ==
    {Len(location_data.val[var]) : var \in VariableNames \ {"angstrom_exponent"}}
        \cup (IF location_data.val.angstrom_exponent.none THEN {}
              ELSE {Len(location_data.val.angstrom_exponent.val)})

\* C7 as stated: when the variables of a LocationInputData do not all have
\* the same length, construction or convert_radiation fails; a variable of
\* another length, length 1 included, is never broadcast into a result.
C7_AsStated ==
    (~location_data.none /\ Cardinality(InputLengths) > 1)
        => /\ rest2.none \/ rest2.val.result.none
           /\ ret.op = "convert_radiation" => ret.raised # ""

\* the timesteps whose measured and model values are both present
KeptTimesteps ==
    {i \in 1..Len(ModelSeries) :
        ~ret.measured[i].valor.nan /\ ~ModelSeries[i].valor.nan}

\* measured - model at timestep i
ErrorAt(i) == ret.measured[i].valor.v - ModelSeries[i].valor.v

RECURSIVE SumOver(_, _)
SumOver(S, f) ==
    IF S = {} THEN 0 ELSE LET i == CHOOSE j \in S : TRUE IN f[i] + SumOver(S \ {i}, f)

AbsErrorAt(i) == IF ErrorAt(i) < 0 THEN 0 - ErrorAt(i) ELSE ErrorAt(i)

SquaredErrorAt(i) == ErrorAt(i) * ErrorAt(i)

\* C8: in me, mae and rmse a timestep is dropped exactly when the measured
\* value or the model value at that timestep is NaN, and every other timestep
\* is kept, so the three metrics evaluate returns are computed over the same
\* set of timesteps.
C8_SameTimestepsDropped ==
    (Evaluated /\ Len(ret.measured) = Len(ModelSeries))
        => IF KeptTimesteps = {}
           THEN ret.metrics.val = [ME |-> NaNRatio, MAE |-> NaNRatio, RMSE2 |-> NaNRatio]
           ELSE ret.metrics.val
                    = [ME |-> Ratio(SumOver(KeptTimesteps, [i \in KeptTimesteps |-> ErrorAt(i)]),
                                    Cardinality(KeptTimesteps)),
                       MAE |-> Ratio(SumOver(KeptTimesteps,
                                             [i \in KeptTimesteps |-> AbsErrorAt(i)]),
                                     Cardinality(KeptTimesteps)),
                       RMSE2 |-> Ratio(SumOver(KeptTimesteps,
                                               [i \in KeptTimesteps |-> SquaredErrorAt(i)]),
                                       Cardinality(KeptTimesteps))]

\* evaluate has returned metrics for two series of which one timestep was
\* dropped for a missing measured value and another was kept
C8_Witness ==
    /\ Evaluated
    /\ Len(ret.measured) = Len(ModelSeries)
    /\ \E i \in 1..Len(ModelSeries) : ret.measured[i].valor.nan /\ ~ModelSeries[i].valor.nan
    /\ \E i \in KeptTimesteps : ErrorAt(i) # 0
    /\ ret.metrics.val.MAE.den = 1

\* C9: for a radiation type outside the stream names,
\* _choose_radiation_for_metric and REST2Result.get raise ValueError and
\* return no series, and evaluate returns no metrics mapping.
C9_UnknownTypeRaises ==
    /\ Converted =>
          \A radiation_type \in RadiationTypes \ StreamNames :
              /\ choose_radiation_for_metric(rest2.val.result.val, radiation_type)
                     = [raised |-> "ValueError"]
              /\ REST2Result_get(rest2.val.result.val, radiation_type)
                     = [raised |-> "ValueError"]
    /\ (ret.op = "evaluate" /\ ret.radiation_type \notin StreamNames)
          => ret.raised = "ValueError" /\ ret.metrics = None
    /\ (ret.op = "get" /\ ret.radiation_type \notin StreamNames)
          => ret.raised = "ValueError" /\ ret.value = None

\* evaluate has been called with a radiation type outside the stream names
C9_Witness ==
    /\ ret.op = "evaluate"
    /\ ret.radiation_type \notin StreamNames
    /\ ret.raised = "ValueError"

\* C10: constructing REST2 from a LocationInputData without an Angstrom
\* exponent raises ValueError and leaves no instance, so every instance that
\* exists was built with the Angstrom exponent.
C10_NoInstanceWithoutAngstrom ==
    /\ (ret.op = "REST2" /\ location_data.val.angstrom_exponent.none)
          => ret.raised = "ValueError" /\ rest2.none
    /\ ~rest2.none => ~location_data.val.angstrom_exponent.none

\* a construction without the Angstrom exponent has been tried
C10_Witness ==
    /\ ret.op = "REST2"
    /\ location_data.val.angstrom_exponent.none
    /\ ret.raised = "ValueError"

\* the attributes of an instance other than the result it keeps
Inputs(self) == [self EXCEPT !.result = None]

CodTimes == Column(location_data.val.cod, "time")

\* C15: each of the eight series of the REST2Result returned by
\* convert_radiation has the length of the input and a time column equal to
\* the timestamps of the COD frame in ascending order.
C15_ResultSharesTimeIndex ==
    Converted =>
        \A name \in StreamNames :
            LET time == Column(rest2.val.result.val[name], "time")
            IN  /\ Len(time) = Len(CodTimes)
                /\ {time[i] : i \in 1..Len(time)} = {CodTimes[i] : i \in 1..Len(CodTimes)}
                /\ \A i \in 1..(Len(time) - 1) : time[i] < time[i + 1]

\* a conversion has returned for a COD frame of several rows that are not in
\* the order of their timestamps
C15_Witness ==
    /\ Converted
    /\ ret.op = "convert_radiation"
    /\ ret.raised = ""
    /\ Len(CodTimes) > 1
    /\ CodTimes[1] > CodTimes[2]

\* the stored input arrays that have physical bounds, with their bounds and
\* the frame each was built from
BoundedArrays ==
    {<<rest2.val.angstrom_exponent, ANGSTROM_EXPONENT_BOUNDS, location_data.val.angstrom_exponent.val>>,
     <<rest2.val.pressure, SURFACE_PRESSURE_BOUNDS, location_data.val.psurf>>,
     <<rest2.val.water_vapour, WATER_VAPOUR_BOUNDS, location_data.val.h2o>>,
     <<rest2.val.ozone, OZONE_BOUNDS, location_data.val.o3>>,
     <<rest2.val.nitrogen_dioxide, NITROGEN_DIOXIDE_BOUNDS, location_data.val.no2>>,
     <<rest2.val.surface_albedo, SURFACE_ALBEDO_BOUNDS, location_data.val.albedo>>,
     <<rest2.val.cod, COD_BOUNDS, location_data.val.cod>>}

Within(x, bounds) == ~x.nan /\ bounds[1] <= x.v /\ x.v <= bounds[2]

\* C16 as stated: after construction every stored input array lies in its
\* physical bounds at every timestep, whatever the LocationInputData carried.
C16_AsStated ==
    ~rest2.none =>
        \A a \in BoundedArrays : \A i \in 1..Len(a[1]) : Within(a[1][i], a[2])

\* C16: after construction every value of a stored input array that is
\* present lies in its physical bounds; a missing value stays missing in
\* every array but the COD, where it is stored as 0.
C16_BoundedWherePresent ==
    ~rest2.none =>
        /\ \A a \in BoundedArrays : \A i \in 1..Len(a[1]) :
                a[1][i].nan \/ Within(a[1][i], a[2])
        /\ \A a \in BoundedArrays : \A i \in 1..Len(a[1]) :
                a[1][i].nan => (a[1] # rest2.val.cod /\ \E j \in 1..Len(a[3]) : a[3][j].valor.nan)
        /\ \A i \in 1..Len(rest2.val.cod) : ~rest2.val.cod[i].nan

\* an instance built from frames holding a value above its upper bound and a
\* value below its lower bound
C16_Witness ==
    /\ ~rest2.none
    /\ \E a \in BoundedArrays : \E j \in 1..Len(a[3]) :
            ~a[3][j].valor.nan /\ a[3][j].valor.v > a[2][2]
    /\ \E a \in BoundedArrays : \E j \in 1..Len(a[3]) :
            ~a[3][j].valor.nan /\ a[3][j].valor.v < a[2][1]

\* _evaluate_air_masses has returned for the arrays of the instance
AirMassesEvaluated == ~rest2.none /\ ret.op = "_evaluate_air_masses" /\ ret.raised = ""

\* the turbidity as computed at timestep i, before it is bounded
ComputedTurbidity(i) ==
    ang_beta(At(rest2.val.optical_depth_550nm, i), At(rest2.val.angstrom_exponent, i))

ReturnedTurbidity == ret.value.val.angstrom_turbidity

\* C13 as stated: the Angstrom turbidity returned by _evaluate_air_masses lies
\* in [0, 1.1] at every timestep.
C13_AsStated ==
    AirMassesEvaluated =>
        \A i \in 1..Len(ReturnedTurbidity) :
            /\ ~ReturnedTurbidity[i].nan
            /\ 0 <= ReturnedTurbidity[i].v
            /\ ReturnedTurbidity[i].v <= 1100

\* C13: at every timestep whose computed turbidity is a number, the Angstrom
\* turbidity returned by _evaluate_air_masses lies in [0, 1.1]: a computed
\* value above 1.1 becomes exactly 1.1, one below 0 becomes exactly 0, one
\* inside the interval is unchanged; a computed NaN is returned as NaN.
C13_TurbidityBoundedWherePresent ==
    AirMassesEvaluated =>
        \A i \in 1..Len(ReturnedTurbidity) :
            LET computed == ComputedTurbidity(i)
                returned == ReturnedTurbidity[i]
            IN  /\ computed.nan => returned.nan
                /\ ~computed.nan =>
                      /\ ~returned.nan /\ 0 <= returned.v /\ returned.v <= 1100
                      /\ computed.v > 1100 => returned.v = 1100
                      /\ computed.v < 0 => returned.v = 0
                      /\ (0 <= computed.v /\ computed.v <= 1100) => returned = computed

\* air masses of an instance whose computed turbidity is above 1.1 at one
\* timestep and below 0 at another
C13_Witness ==
    /\ AirMassesEvaluated
    /\ \E i \in 1..Len(ReturnedTurbidity) : Greater(ComputedTurbidity(i), Num(1100))
    /\ \E i \in 1..Len(ReturnedTurbidity) : Less(ComputedTurbidity(i), Zero)

\* _band_1_radiation has returned for an NO2 column
Band1Returned == ~rest2.none /\ ret.op = "_band_1_radiation" /\ ret.raised = ""

\* the rational expression of the NO2 transmittance at timestep i, at the
\* true air mass and at the reference air mass 1.66
ExpressionTn(i) == Tn_middle(At(ret.nitrogen_dioxide, i), amw(At(rest2.val.zenith_angle, i)))

ExpressionTn166(i) == Tn_middle(At(ret.nitrogen_dioxide, i), Num(1660))

CappedFrom(returned, expression) ==
    /\ ~Greater(returned, One)
    /\ Greater(expression, One) => returned = One
    /\ ~Greater(expression, One) => returned = expression

\* C14: the NO2 transmittances Tn and Tn166 returned by _band_1_radiation
\* never exceed 1: a timestep whose rational expression is above 1 is set to
\* exactly 1, and a value at or below 1 is unchanged.
C14_NO2TransmittanceCapped ==
    Band1Returned =>
        /\ \A i \in 1..Len(ret.value.val.Tn) : CappedFrom(ret.value.val.Tn[i], ExpressionTn(i))
        /\ \A i \in 1..Len(ret.value.val.Tn166) :
               CappedFrom(ret.value.val.Tn166[i], ExpressionTn166(i))

\* a call whose expression is above 1 at the true air mass and at 1.66
C14_Witness ==
    /\ Band1Returned
    /\ \E i \in 1..Len(ret.value.val.Tn) : Greater(ExpressionTn(i), One)
    /\ \E i \in 1..Len(ret.value.val.Tn166) : Greater(ExpressionTn166(i), One)

Trained == ~rest2.none /\ ret.op = "train"

\* f can be evaluated at the starting point: the arrays of the instance
\* combine and the radiation type is supported
ObjectiveDefined ==
    objective(Inputs(rest2.val), ret.measured, ret.radiation_type, ret.x0).raised = ""

\* C17: train does not raise because the minimizer did not converge: whatever
\* success status the minimization reports, train returns a mapping with
\* exactly the keys mu0 and g holding the minimizer's final iterate, started
\* from mu0 = 0, g = 0.85.
C17_NonConvergenceNotRaised ==
    (Trained /\ ObjectiveDefined) =>
        /\ ret.raised = ""
        /\ ret.x0 = <<0, 850>>
        /\ DOMAIN ret.value.val = {"mu0", "g"}
        /\ ret.value.val.mu0 = ret.res.x[1]
        /\ ret.value.val.g = ret.res.x[2]

\* a minimization that moved away from the starting point and reported no
\* success
C17_Witness ==
    /\ Trained
    /\ ObjectiveDefined
    /\ ret.raised = ""
    /\ ~ret.res.success
    /\ ret.res.x # ret.x0

\* C11 as stated: train on a series generated by convert_radiation with the
\* parameters (mu0*, g*) on the same inputs returns (mu0*, g*), for every
\* supported radiation type.
C11_AsStated ==
    (Trained /\ ret.raised = "" /\ ret.res.success) =>
        ret.value.val = params_dict(ret.truth)

\* the calls of get_storage in the history
Gets == {i \in 1..Len(calls) : calls[i].op = "get_storage"}

Clears == {i \in 1..Len(calls) : calls[i].op = "clear_cache"}

IsS3(i) == StartsWith(calls[i].path, <<"s3://">>)

ClearedBetween(i, j) == \E k \in Clears : i < k /\ k < j

\* call j is the first get_storage after a clear_cache
FirstAfterClear(j) ==
    \E k \in Clears : k < j /\ \A i \in Gets : ~(k < i /\ i < j)

\* C18: two get_storage calls with no clear_cache between them return the
\* same instance when both paths start with s3:// or both do not, a local and
\* an s3 path never return the same instance, and the first get_storage after
\* a clear_cache returns an instance distinct from those returned before it.
C18_FactoryCache ==
    \A i \in Gets, j \in Gets :
        i < j =>
            /\ (~ClearedBetween(i, j) /\ IsS3(i) = IsS3(j)) => calls[i].value = calls[j].value
            /\ IsS3(i) # IsS3(j) => calls[i].value # calls[j].value
            /\ (FirstAfterClear(j) /\ ClearedBetween(i, j)) => calls[i].value # calls[j].value

\* an s3 backend was returned for two different paths, the cache was cleared
\* and an s3 backend was asked for again
C18_Witness ==
    /\ Len(calls) = 3
    /\ calls[1].op = "get_storage" /\ IsS3(1)
    /\ calls[2].op = "clear_cache"
    /\ calls[3].op = "get_storage" /\ IsS3(3)
    /\ calls[1].path # calls[3].path

\* the path of a listed entry below the working directory or in the bucket
Relative(listed) == {IF StartsWith(p, <<"s3://">>) THEN SubSeq(p, 4, Len(p)) ELSE p : p \in listed}

\* the stored files of directory path whose name matches the pattern
MatchingFiles(path, pattern) ==
    {f \in files :
        \E name \in entries({f}, rstrip(path)) :
            f = rstrip(path) \o <<"/">> \o name /\ fnmatch(name, pattern)}

\* C19 as stated: list_files(path, pattern) returns exactly the stored files
\* under path whose names match the glob pattern, alike for LocalBackend and
\* S3Backend holding the same files.
C19_AsStated ==
    ret.op = "list_files" =>
        /\ ret.raised = ""
        /\ Relative(ret.local) = MatchingFiles(ret.path, ret.pattern)
        /\ Relative(ret.s3) = MatchingFiles(ret.path, ret.pattern)

\* C20 as stated: an InputData built from any path keeps the path unchanged
\* in .path and exposes a storage backend in .storage.
C20_AsStated ==
    ret.op = "InputData" =>
        /\ ret.value.path = ret.path
        /\ "storage" \in DOMAIN ret.value

\* the timesteps of the instance whose cloud optical depth is 0
ZeroCod == {i \in Timesteps : At(rest2.val.cod, i) = Zero}

\* the conversion that gave the result of the instance has just returned
JustConverted == Converted /\ ret.op = "convert_radiation" /\ ret.raised = ""

RowsOfDay ==
    {i \in 1..Len(ret.df) :
        (ret.df[i].data_hora_previsao - ret.df[i].data_hora_rodada) \div 2 = ret.forecasting_day}

\* C21 as stated: filter_forecasting_day(df, d) returns one row for each
\* distinct forecast time among exactly the rows whose floor of the days
\* between run and forecast is d, with the forecast time in column time, in
\* strictly ascending time order.
C21_AsStated ==
    ret.op = "filter_forecasting_day" =>
        /\ {ret.value[k].time : k \in 1..Len(ret.value)}
              = {ret.df[i].data_hora_previsao : i \in RowsOfDay}
        /\ \A k \in 1..Len(ret.value) :
              \E i \in RowsOfDay :
                  ret.value[k] = Row(ret.df[i].data_hora_previsao, ret.df[i].valor)
        /\ \A k \in 1..(Len(ret.value) - 1) : ret.value[k].time < ret.value[k + 1].time

\* ------------------------------------------- aerosol optical depth, bands
\* np.log(x) for x in thousandths above 0: tabulated between 1 and 2 in
\* steps of 0.25 and interpolated, with log(2 x) = log(2) + log(x) elsewhere
LogTable == <<0, 223, 405, 560, 693>>

RECURSIVE Log(_)
Log(x) ==
    IF x >= 2000 THEN 693 + Log(x \div 2)
    ELSE IF x < 1000 THEN Log(2 * x) - 693
    ELSE LET k == (x - 1000) \div 250
         IN  LogTable[k + 1] + ((LogTable[k + 2] - LogTable[k + 1]) * ((x - 1000) % 250)) \div 250

\* the aerosol air mass ama of REST2._evaluate_air_masses at a zenith angle
ama(z) == CASE z = 0 -> 1000 [] z = 60 -> 1999 [] z = 90 -> 68549 [] z = 120 -> 2003

\* the product of a number in millionths and one in thousandths, in millionths
Times(x, y) == ((x \div 100) * y) \div 10

\* a polynomial c0 + c1 a + c2 a^2 of the Angstrom exponent a in thousandths,
\* with coefficients and value in millionths
Poly(c0, c1, c2, a) == c0 + Times(c1, a) + Times(Times(c2, a), a)

\* the quotient of two numbers in millionths, in millionths
Quot(n, d) == (n * 100) \div (d \div 10000)

\* ua = np.log(1 + ama * AB), in thousandths
ua(zenith_angle, AB) == Log(1000 + (ama(zenith_angle) * AB) \div 1000)

\* lam1 of REST2._band_1_radiation, in thousandths
lam1(alph1, ua1) ==
    LET d0 == Poly(576640, 0 - 24743, 0, alph1)
        d1 == Quot(Poly(93942, 0 - 226900, 128480, alph1), Poly(1000000, 641800, 0, alph1))
        d2 == Quot(Poly(0 - 93819, 366680, 0 - 127750, alph1), Poly(1000000, 0 - 116510, 0, alph1))
        d3 == Quot(Times(Poly(152320, 0 - 87214, 12664, alph1), alph1), Poly(1000000, 0 - 904540, 261670, alph1))
    IN  Quot(d0 + Times(d1, ua1) + Times(Times(d2, ua1), ua1),
             1000000 + Times(Times(d3, ua1), ua1)) \div 1000

\* lam2 of REST2._band_2_radiation, in thousandths
lam2(alph2, ua2) ==
    LET e0 == Quot(Poly(1183000, 0 - 22989, 20829, alph2), Poly(1000000, 111330, 0, alph2))
        e1 == Quot(Poly(0 - 500030, 0 - 183290, 238350, alph2), Poly(1000000, 1675600, 0, alph2))
        e2 == Quot(Poly(0 - 500010, 1141400, 8359, alph2), Poly(1000000, 11168000, 0, alph2))
        e3 == Quot(Poly(0 - 700030, 0 - 735870, 515090, alph2), Poly(1000000, 4766500, 0, alph2))
    IN  Quot(e0 + Times(e1, ua2) + Times(Times(e2, ua2), ua2),
             1000000 + Times(e3, ua2)) \div 1000

\* a float that is infinite
Inf == [nan |-> FALSE, v |-> 0, inf |-> TRUE]

IsFinite(a) == ~a.nan /\ "inf" \notin DOMAIN a

\* |base| ^ (-exponent) for a base other than 0, both in thousandths
PowerOfMagnitude(base, exponent) ==
    ExpNeg(Num((exponent * Log(IF base < 0 THEN 0 - base ELSE base)) \div 1000))

\* np.power(base, -exponent) of a real base: 1 for an exponent of 0, infinite
\* at a base of 0, NaN for a negative base unless the exponent is a whole
\* number
power_real(base, exponent) ==
    IF exponent = 0 THEN One
    ELSE IF base = 0 THEN Inf
    ELSE IF base > 0 THEN PowerOfMagnitude(base, exponent)
    ELSE IF exponent % 1000 # 0 THEN NaN
    ELSE IF (exponent \div 1000) % 2 = 1 THEN Sub(Zero, PowerOfMagnitude(base, exponent))
    ELSE PowerOfMagnitude(base, exponent)

\* the magnitude of np.power(base, -exponent) of a base cast to complex
power_complex(base, exponent) ==
    IF exponent = 0 THEN One
    ELSE IF base = 0 THEN Inf
    ELSE PowerOfMagnitude(base, exponent)

\* np.abs(AB * p) for a power p
DepthOf(AB, p) ==
    IF IsFinite(p) THEN Abs(Mul(Num(AB), p))
    ELSE IF p.nan \/ AB = 0 THEN NaN
    ELSE Inf

\* ta1 of REST2._band_1_radiation
ta1(AB1, lam, alph1) == DepthOf(AB1, power_real(lam, alph1))

\* ta2 of REST2._band_2_radiation
ta2(AB2, lam, alph2) == DepthOf(AB2, power_complex(lam, alph2))

\* the zenith angles, Angstrom turbidities and Angstrom exponents of the
\* calls of the band functions
BandZeniths == {0, 60, 90, 120}

BandTurbidities == {0, 100, 200, 500, 1100}

BandExponents == {0, 100, 500, 1000, 1300, 2500}

\* the aerosol optical depth that REST2._band_1_radiation computes
Band1AerosolDepth(zenith_angle, AB1, alph1) ==
    /\ \E lam \in {lam1(alph1, ua(zenith_angle, AB1))} :
          ret' = [op |-> "_band_1_radiation", zenith_angle |-> zenith_angle,
                  angstrom_turbidity |-> AB1, angstrom_exponent |-> alph1,
                  lam |-> lam, ta |-> ta1(AB1, lam, alph1)]
    /\ UNCHANGED <<location_data, rest2, storage>>

\* the aerosol optical depth that REST2._band_2_radiation computes
Band2AerosolDepth(zenith_angle, AB2, alph2) ==
    /\ \E lam \in {lam2(alph2, ua(zenith_angle, AB2))} :
          ret' = [op |-> "_band_2_radiation", zenith_angle |-> zenith_angle,
                  angstrom_turbidity |-> AB2, angstrom_exponent |-> alph2,
                  lam |-> lam, ta |-> ta2(AB2, lam, alph2)]
    /\ UNCHANGED <<location_data, rest2, storage>>

NextBands ==
    \/ \E z \in BandZeniths, AB \in BandTurbidities, a \in BandExponents : Band1AerosolDepth(z, AB, a)
    \/ \E z \in BandZeniths, AB \in BandTurbidities, a \in BandExponents : Band2AerosolDepth(z, AB, a)

SpecBands == Init /\ [][NextBands]_vars

\* a band function has computed its aerosol optical depth from a lambda
\* that is 0 or below and an Angstrom exponent that is not a whole number
NonPositiveLambda ==
    /\ ret.op \in {"_band_1_radiation", "_band_2_radiation"}
    /\ ret.lam <= 0
    /\ ret.angstrom_exponent % 1000 # 0

\* C23 as stated: in both Band 1 and Band 2, a zero-or-negative lambda with
\* a fractional Angstrom exponent yields a real, finite aerosol optical
\* depth, the magnitude of beta * lambda^(-alpha), never a NaN or an error.
C23_AsStated ==
    NonPositiveLambda =>
        /\ IsFinite(ret.ta)
        /\ ret.ta = DepthOf(ret.angstrom_turbidity, power_complex(ret.lam, ret.angstrom_exponent))

\* ------------------------------------------------ the apparent solar hour
\* Times of day are in tenths of a minute, longitudes in tenths of a degree.
HourLen == 600

\* the equation of time Et of a day of the year
Et(day_of_year) == CASE day_of_year = 45 -> 0 - 143 [] day_of_year = 305 -> 164

\* psi, the longitude counted westwards from 0 to 360 degrees
psi(lon) == IF lon > 0 THEN 3600 - lon ELSE 0 - lon

\* np.abs(15.0 * np.round(psi / 15.0)): numpy rounds a half to the even
\* neighbour
psi_std(lon) ==
    LET q == psi(lon) \div 150
        r == psi(lon) % 150
    IN  150 * (IF r < 75 THEN q ELSE IF r > 75 THEN q + 1 ELSE IF q % 2 = 0 THEN q ELSE q + 1)

\* correction = 4 * (psi_std - psi) + Et, in minutes
correction(lon, day_of_year) == 4 * (psi_std(lon) - psi(lon)) + Et(day_of_year)

\* the apparent time before the two passes
unwrapped(local_hours, local_minutes, c) ==
    [hour_ap |-> HourLen * local_hours + (10 * local_minutes + c),
     minute_ap |-> 10 * local_minutes + c]

\* the first pass: where the apparent hour is below 0
first_pass(ap, local_minutes, c) ==
    IF ap.hour_ap < 0
    THEN [hour_ap |-> 24 * HourLen + (10 * local_minutes + c), minute_ap |-> HourLen + ap.minute_ap]
    ELSE ap

\* the second pass: where the apparent hour is not below 0 and the apparent
\* minute is
second_pass(ap, local_hours, local_minutes, c) ==
    IF ap.hour_ap >= 0 /\ ap.minute_ap < 0
    THEN [hour_ap |-> HourLen * local_hours + (10 * local_minutes + c), minute_ap |-> HourLen + ap.minute_ap]
    ELSE ap

\* an apparent time that is not wrapped around
apparent_time_unwrapped(local_hours, local_minutes, c) == unwrapped(local_hours, local_minutes, c)

\* hour_ap and minute_ap of extraterrestrial_radiation at one timestamp
apparent_time(local_hours, local_minutes, c) ==
    second_pass(first_pass(unwrapped(local_hours, local_minutes, c), local_minutes, c),
                local_hours, local_minutes, c)

\* the local times of the timestamps given to extraterrestrial_radiation
LocalTimes == [tm_yday : {45, 305}, hour : {0, 1, 23}, minute : {0, 30}]

LocalTimeColumns == UNION {[1..n -> LocalTimes] : n \in 1..MaxLen}

Longitudes == {0 - 525, 0 - 450, 0 - 375, 0, 100}

\* extraterrestrial_radiation(utc_datetimes, lat, lon) up to the hour angle
\* omega, in hundredths of a degree, for timestamps that are
\* local_datetimes in the time zone of the program
ExtraterrestrialRadiation(local_datetimes, lon) ==
    /\ FirstCall
    /\ ret' = [op |-> "extraterrestrial_radiation", local_datetimes |-> local_datetimes, lon |-> lon,
               ap |-> [i \in 1..Len(local_datetimes) |->
                          apparent_time(local_datetimes[i].hour, local_datetimes[i].minute,
                                        correction(lon, local_datetimes[i].tm_yday))],
               omega |-> [i \in 1..Len(local_datetimes) |->
                             ((apparent_time(local_datetimes[i].hour, local_datetimes[i].minute,
                                             correction(lon, local_datetimes[i].tm_yday)).hour_ap
                               - 12 * HourLen) * 15) \div 6]]
    /\ UNCHANGED <<location_data, rest2, storage>>

NextSolar == \E local_datetimes \in LocalTimeColumns, lon \in Longitudes : ExtraterrestrialRadiation(local_datetimes, lon)

SpecSolar == Init /\ [][NextSolar]_vars

\* local_hour + (local_minute + correction) / 60 of timestamp i of the call
UncorrectedHour(i) ==
    HourLen * ret.local_datetimes[i].hour
        + 10 * ret.local_datetimes[i].minute
        + correction(ret.lon, ret.local_datetimes[i].tm_yday)

\* C24: in extraterrestrial_radiation, for every timestamp whose uncorrected
\* apparent hour local_hour + (local_minute + correction)/60 is negative the
\* hour used for the hour angle is that value plus 24, for every other
\* timestamp it is that value unchanged, and the hour used is never negative.
C24_HourWrapsAround ==
    ret.op = "extraterrestrial_radiation" =>
        \A i \in 1..Len(ret.local_datetimes) :
            /\ UncorrectedHour(i) < 0 => ret.ap[i].hour_ap = UncorrectedHour(i) + 24 * HourLen
            /\ UncorrectedHour(i) >= 0 => ret.ap[i].hour_ap = UncorrectedHour(i)
            /\ ret.ap[i].hour_ap >= 0
            /\ ret.omega[i] = ((ret.ap[i].hour_ap - 12 * HourLen) * 15) \div 6

\* a call with a timestamp whose uncorrected hour is negative and one whose
\* hour is not negative and whose apparent minute is, where the second pass
\* acts
C24_Witness ==
    /\ ret.op = "extraterrestrial_radiation"
    /\ \E i \in 1..Len(ret.local_datetimes) : UncorrectedHour(i) < 0
    /\ \E i \in 1..Len(ret.local_datetimes) :
          /\ UncorrectedHour(i) >= 0
          /\ 10 * ret.local_datetimes[i].minute + correction(ret.lon, ret.local_datetimes[i].tm_yday) < 0

\* ------------------------------------------------- TrainManager, inference
\* config.target_radiation_type
TargetRadiationTypes == TrainedTypes \cup {"dhi"}

\* rest2.train(measured_data, radiation_type) on the instance self: the
\* exception of the first evaluation of f, or the mappings it can return
train_outcomes(self, measured_data, radiation_type) ==
    Only({IF f[parameter_initial_values].raised # ""
          THEN {[raised |-> f[parameter_initial_values].raised]}
          ELSE {train(f, res) : res \in minimize(f, parameter_initial_values)} :
            f \in {objective_table(self, measured_data, radiation_type)}})

\* the rest of TrainManager._train_rest2 after rest2.train returned params,
\* with the in-sample metrics of the stream that evaluate is asked for
insample(self, measured_data, params, target_radiation_type, radiation_type) ==
    Only({IF insample_radiation.raised # "" THEN [raised |-> insample_radiation.raised]
          ELSE Only({IF insample_metrics.raised # "" THEN [raised |-> insample_metrics.raised]
                     ELSE [raised |-> "",
                           value |-> [parameters |-> params,
                                      radiation |-> insample_radiation.value,
                                      metrics |-> insample_metrics.metrics,
                                      radiation_type |-> target_radiation_type]] :
                       insample_metrics \in {evaluate(insample_radiation.value, measured_data,
                                                      radiation_type)}}) :
            insample_radiation \in {convert_radiation(self, params)}})

\* TrainManager._train_rest2 from REST2(location_data) on: the exceptions and
\* the TrainResults it can end with; evaluate is called without a radiation
\* type and takes its default, "dni"
train_rest2(loc, measured_data, target_radiation_type) ==
    Only({IF rest2_new.raised # "" THEN {[raised |-> rest2_new.raised]}
          ELSE {IF params.raised # "" THEN [raised |-> params.raised]
                ELSE insample(rest2_new.self, measured_data, params.value,
                              target_radiation_type, "dni") :
                   params \in train_outcomes(rest2_new.self, measured_data, target_radiation_type)} :
            rest2_new \in {REST2Init(loc)}})

\* TrainManager._evaluate_rest2 from REST2(location_data) on
evaluate_rest2(loc, measured_data, parameters, target_radiation_type) ==
    Only({IF rest2_new.raised # "" THEN [raised |-> rest2_new.raised]
          ELSE Only({IF r.raised # "" THEN [raised |-> r.raised]
                     ELSE [raised |-> "",
                           value |-> [radiation |-> r.value.radiation, metrics |-> r.value.metrics,
                                      radiation_type |-> target_radiation_type]] :
                       r \in {insample(rest2_new.self, measured_data, parameters,
                                       target_radiation_type, target_radiation_type)}}) :
            rest2_new \in {REST2Init(loc)}})

\* the measured data of a plant: the target stream that the inputs give
\* under the parameters truth, or a frame of zeros where there is none
MeasuredData(loc, truth, target_radiation_type) ==
    Only({IF rest2_new.raised # "" THEN <<Row(1, Zero)>>
          ELSE TrainingSeries(rest2_new.self, truth, target_radiation_type) :
            rest2_new \in {REST2Init(loc)}})

\* TrainManager._train_rest2 for the inputs and the measured data of a plant
TrainRest2(location_data_in, truth, target_radiation_type) ==
    /\ FirstCall
    /\ \E measured_data \in {MeasuredData(location_data_in, truth, target_radiation_type)} :
         \E r \in train_rest2(location_data_in, measured_data, target_radiation_type) :
            ret' = [op |-> "_train_rest2", location_data |-> location_data_in,
                    measured_data |-> measured_data,
                    target_radiation_type |-> target_radiation_type,
                    raised |-> r.raised, value |-> IF r.raised = "" THEN Some(r.value) ELSE None]
    /\ UNCHANGED <<location_data, rest2, storage>>

\* TrainManager._evaluate_rest2 for the inputs and the measured data of a
\* plant
EvaluateRest2(location_data_in, truth, parameters, target_radiation_type) ==
    /\ FirstCall
    /\ \E measured_data \in {MeasuredData(location_data_in, truth, target_radiation_type)} :
         \E r \in {evaluate_rest2(location_data_in, measured_data, parameters, target_radiation_type)} :
            ret' = [op |-> "_evaluate_rest2", location_data |-> location_data_in,
                    measured_data |-> measured_data,
                    target_radiation_type |-> target_radiation_type,
                    raised |-> r.raised, value |-> IF r.raised = "" THEN Some(r.value) ELSE None]
    /\ UNCHANGED <<location_data, rest2, storage>>

\* PlantResult.chosen_radiation of app.inference: the exception, or the frame
inference_chosen_radiation(radiation, radiation_type) ==
    IF radiation_type = "ghi" THEN [raised |-> "", value |-> radiation.ghi]
    ELSE IF radiation_type = "dni" THEN [raised |-> "", value |-> radiation.dni]
    ELSE IF radiation_type = "dhi" THEN [raised |-> "", value |-> radiation.dhi]
    ELSE [raised |-> "ValueError"]

\* InferenceManager._predict_rest2 from REST2(location_data) on
predict_rest2(loc, parameters, target_radiation_type) ==
    Only({IF rest2_new.raised # "" THEN [raised |-> rest2_new.raised]
          ELSE Only({IF val_radiation.raised # "" THEN [raised |-> val_radiation.raised]
                     ELSE [raised |-> "",
                           value |-> [radiation |-> val_radiation.value,
                                      radiation_type |-> target_radiation_type]] :
                       val_radiation \in {convert_radiation(rest2_new.self, parameters)}}) :
            rest2_new \in {REST2Init(loc)}})

\* the path of the results of a plant under config.output
OutputPath == <<"output", "/", "plant", ".parquet">>

\* InferenceManager._predict_rest2 under the config of a training that gave
\* a TrainResult, with the parameters of its artifact, on the inputs of the
\* training window
PredictRest2 ==
    /\ ret.op = "_train_rest2"
    /\ ret.raised = ""
    /\ \E r \in {predict_rest2(ret.location_data, ret.value.val.parameters, ret.target_radiation_type)} :
          ret' = [op |-> "_predict_rest2", location_data |-> ret.location_data,
                  parameters |-> ret.value.val.parameters,
                  target_radiation_type |-> ret.target_radiation_type,
                  raised |-> r.raised, value |-> IF r.raised = "" THEN Some(r.value) ELSE None]
    /\ UNCHANGED <<location_data, rest2, storage>>

\* write_inference_results for the PlantResult of one plant
WriteInferenceResults ==
    /\ ret.op = "_predict_rest2"
    /\ ret.raised = ""
    /\ \E df \in {inference_chosen_radiation(ret.value.val.radiation, ret.value.val.radiation_type)} :
          /\ ret' = [op |-> "write_inference_results",
                     target_radiation_type |-> ret.target_radiation_type,
                     raised |-> df.raised]
          /\ files' = IF df.raised = "" THEN files \cup {OutputPath} ELSE files
    /\ UNCHANGED <<location_data, rest2, factory, instances, calls>>

NextManager ==
    \/ \E loc \in LocationInputs, truth \in Iterates, target \in TargetRadiationTypes : TrainRest2(loc, truth, target)
    \/ \E loc \in LocationInputs, truth \in Iterates, parameters \in Parameters, target \in TargetRadiationTypes : EvaluateRest2(loc, truth, parameters, target)
    \/ PredictRest2
    \/ WriteInferenceResults

SpecManager == Init /\ [][NextManager]_vars

\* C25 as stated: the in-sample metrics stored in TrainResult by
\* TrainManager._train_rest2 are computed on the stream that the calibration
\* minimised, config.target_radiation_type, as validation and test metrics
\* are.
C25_AsStated ==
    (ret.op \in {"_train_rest2", "_evaluate_rest2"} /\ ret.raised = "") =>
        /\ ret.value.val.radiation_type = ret.target_radiation_type
        /\ ret.value.val.metrics
             = evaluate(ret.value.val.radiation, ret.measured_data, ret.target_radiation_type).metrics

\* the values of the parameter g
AsymmetryValues == {p.g : p \in Parameters}

\* the conversion of the instance with the parameters of the last one but
\* for g
WithAsymmetry(g) == convert_radiation(rest2.val, [ret.parameters EXCEPT !.g = g])

\* the streams that the direct beam and the clear sky give
StreamsWithoutAsymmetry == {"dni", "dni_cs", "dhi_cs", "ghi_cs", "ghi_tracker_cs"}

\* C26: two REST2.convert_radiation runs on the same instance that differ
\* only in the parameter g produce identical dni, dni_cs, dhi_cs, ghi_cs and
\* ghi_tracker_cs series; g can change only the cloud-sky dhi, ghi and
\* ghi_tracker series.
C26_AsymmetryOnlyInCloudDiffuse ==
    JustConverted =>
        \A g \in AsymmetryValues :
            \E other \in {WithAsymmetry(g)} :
                /\ other.raised = ""
                /\ \A name \in StreamsWithoutAsymmetry :
                      other.value[name] = rest2.val.result.val[name]
                /\ {name \in StreamNames : other.value[name] # rest2.val.result.val[name]}
                      \subseteq {"dhi", "ghi", "ghi_tracker"}

\* a conversion whose cloud-sky dhi, ghi and ghi_tracker all change with g
C26_Witness ==
    /\ JustConverted
    /\ \E g \in AsymmetryValues :
          \E other \in {WithAsymmetry(g)} :
              /\ other.raised = ""
              /\ \A name \in {"dhi", "ghi", "ghi_tracker"} :
                    other.value[name] # rest2.val.result.val[name]

\* the constructor has just returned an instance
Constructed == ret.op = "REST2" /\ ret.raised = "" /\ ~rest2.none /\ ~location_data.none

\* the frames given to the constructor, by the attribute made of each
InputFrames ==
    [angstrom_exponent |-> location_data.val.angstrom_exponent.val,
     pressure |-> location_data.val.psurf, water_vapour |-> location_data.val.h2o,
     ozone |-> location_data.val.o3, nitrogen_dioxide |-> location_data.val.no2,
     surface_albedo |-> location_data.val.albedo,
     optical_depth_550nm |-> location_data.val.od550, cod |-> location_data.val.cod]

\* the bounds applied to each
InputBounds ==
    [angstrom_exponent |-> ANGSTROM_EXPONENT_BOUNDS, pressure |-> SURFACE_PRESSURE_BOUNDS,
     water_vapour |-> WATER_VAPOUR_BOUNDS, ozone |-> OZONE_BOUNDS,
     nitrogen_dioxide |-> NITROGEN_DIOXIDE_BOUNDS, surface_albedo |-> SURFACE_ALBEDO_BOUNDS,
     cod |-> COD_BOUNDS]

\* every frame has one row for each timestamp of the COD frame and no other
SameTimestamps ==
    \A a \in DOMAIN InputFrames :
        /\ Len(InputFrames[a]) = Len(InputFrames.cod)
        /\ {InputFrames[a][k].time : k \in 1..Len(InputFrames[a])}
              = {InputFrames.cod[k].time : k \in 1..Len(InputFrames.cod)}
        /\ Cardinality({InputFrames[a][k].time : k \in 1..Len(InputFrames[a])}) = Len(InputFrames[a])

\* what the constructor keeps of the value x of the frame of attribute a
Kept(a, x) ==
    IF a = "optical_depth_550nm" THEN x
    ELSE IF a = "cod" /\ x.nan THEN Zero
    ELSE ClipValue(x, InputBounds[a][1], InputBounds[a][2])

\* C27 as stated: after REST2 construction, for every index i the zenith
\* angle and extraterrestrial irradiance at i, time_steps[i] and the value at
\* i of every stored variable all belong to the same timestamp, for any row
\* order of the input frames.
C27_AsStated ==
    (Constructed /\ SameTimestamps) =>
        \A i \in 1..Len(rest2.val.time_steps) :
            /\ rest2.val.zenith_angle[i] = ZenithDeg(rest2.val.time_steps[i])
            /\ rest2.val.extraterrestrial_radiation[i]
                 = Mul(Num(Isc), Cos(ZenithDeg(rest2.val.time_steps[i])))
            /\ \A a \in DOMAIN InputFrames :
                  \E k \in 1..Len(InputFrames[a]) :
                      /\ InputFrames[a][k].time = rest2.val.time_steps[i]
                      /\ rest2.val[a][i] = Kept(a, InputFrames[a][k].valor)

\* C28 as stated: every target_radiation_type for which TrainManager
\* training and evaluation succeed is also accepted by the inference
\* PlantResult.chosen_radiation, so write_inference_results never raises
\* 'Unknown radiation type' for an artifact that train mode produced under
\* the same config.
C28_AsStated ==
    ret.op = "write_inference_results" => ret.raised = ""

\* ------------------------------------------------------------------- main
MaxRuns == 2

PlantIds == {"p1", "p2"}

\* the configurations: config.plant_ids has up to MaxLen plants
Configs ==
    [mode : {"train", "inference", "evaluate"},
     plant_ids : UNION {[1..n -> PlantIds] : n \in 1..MaxLen},
     artifact : {<<"artifacts">>, <<"s3://", "bucket", "/", "artifacts">>},
     target_radiation_type : {"ghi", "dni_cs"},
     plots : BOOLEAN]

\* the backend that StorageFactory.get_storage gives for a path
backend_of(path) == IF StartsWith(path, <<"s3://">>) THEN "s3" ELSE "local"

\* s.lstrip("/")
RECURSIVE lstrip(_)
lstrip(s) == IF s # <<>> /\ s[1] = "/" THEN lstrip(Tail(s)) ELSE s

\* os.path.join(a, b), which LocalBackend.join_path is
os_path_join(a, b) ==
    IF b # <<>> /\ b[1] = "/" THEN b
    ELSE IF a = <<>> \/ a[Len(a)] = "/" THEN a \o b
    ELSE a \o <<"/">> \o b

\* S3Backend.join_path(a, b)
s3_join_path(a, b) ==
    IF StartsWith(a, <<"s3://">>) THEN rstrip(a) \o <<"/">> \o lstrip(b)
    ELSE a \o <<"/">> \o lstrip(b)

\* f"{plant_id}.json"
artifact_name(plant_id) == <<plant_id, ".json">>

\* pyjson5.encode of a value: the text of a number, of NaN, of null, of a
\* string, and of a mapping with the texts of its values
RECURSIVE encode(_)
encode(x) ==
    IF x = None THEN <<"null">>
    ELSE IF DOMAIN x = {"nan", "v"} THEN (IF x.nan THEN <<"NaN">> ELSE <<"number", x.v>>)
    ELSE IF DOMAIN x = {"str"} THEN <<"\"", x.str, "\"">>
    ELSE <<"{", [k \in DOMAIN x |-> encode(x[k])], "}">>

\* pyjson5.decode of a text
RECURSIVE decode(_)
decode(text) ==
    IF text = <<"null">> THEN None
    ELSE IF text = <<"NaN">> THEN NaN
    ELSE IF text[1] = "number" THEN Num(text[2])
    ELSE IF text[1] = "\"" THEN [str |-> text[2]]
    ELSE [k \in DOMAIN text[2] |-> decode(text[2][k])]

\* PlantArtifact(...).__dict__ as write_plant_artifacts builds it
artifact_dict(config, result) ==
    [parameters |-> [mu0 |-> Num(result.train.parameters.mu0), g |-> Num(result.train.parameters.g)],
     metrics |-> [train |-> result.train.metrics,
                  validation |-> IF result.validation # None THEN result.validation.val.metrics ELSE None,
                  testing |-> IF result.testing # None THEN result.testing.val.metrics ELSE None],
     radiation_type |-> [str |-> config.target_radiation_type]]

\* the file that write_bytes(data, path) of a backend leaves
written_file(backend, path, data) ==
    IF backend = "local" THEN [backend |-> "local", path |-> path, data |-> data]
    ELSE [backend |-> "s3", bucket |-> parse_s3_uri(path).bucket,
          key |-> parse_s3_uri(path).key, data |-> data]

\* the place of a file, whatever it holds
Place(file) == [k \in DOMAIN file \ {"data"} |-> file[k]]

\* write_plant_artifacts(config, results) on the files stored: the exception
\* and the files stored afterwards
write_plant_artifacts(config, results, stored) ==
    LET backend == backend_of(config.artifact)
        artifact_path(plant_id) ==
            IF backend = "local" THEN os_path_join(config.artifact, artifact_name(plant_id))
            ELSE s3_join_path(config.artifact, artifact_name(plant_id))
        new == {written_file(backend, artifact_path(plant_id),
                             encode(artifact_dict(config, results[plant_id]))) :
                  plant_id \in DOMAIN results}
    IN  IF backend = "s3" /\ \E plant_id \in DOMAIN results : parse_s3_uri(artifact_path(plant_id)).raised # ""
        THEN [raised |-> "ValueError", stored |-> stored]
        ELSE [raised |-> "",
              stored |-> {file \in stored : \A n \in new : Place(n) # Place(file)} \cup new]

\* read_plant_artifacts(config) on the files stored: open() reads the local
\* file system
read_plant_artifacts(config, stored) ==
    LET path(plant_id) == os_path_join(config.artifact, artifact_name(plant_id))
        found(plant_id) == {file \in stored : file.backend = "local" /\ file.path = path(plant_id)}
        plants == {config.plant_ids[k] : k \in 1..Len(config.plant_ids)}
    IN  IF \E plant_id \in plants : found(plant_id) = {}
        THEN [raised |-> "FileNotFoundError"]
        ELSE [raised |-> "",
              value |-> [plant_id \in plants |->
                            LET artifact == decode(Only(found(plant_id)).data)
                            IN  [parameters |-> artifact.parameters, metrics |-> artifact.metrics,
                                 radiation_type |-> artifact.radiation_type.str]]]

\* what TrainManager._train_for_plant can end with for a plant: an exception
\* of the readers, of REST2 or of the metrics, or a PlantResult; a radiation
\* type that _choose_radiation_for_metric does not know always raises
train_for_plant(config) ==
    {[raised |-> "ValueError"]}
      \cup {[raised |-> "",
             value |-> [train |-> [parameters |-> parameters, metrics |-> [ME |-> metric],
                                   radiation_type |-> config.target_radiation_type],
                        validation |-> None, testing |-> None]] :
              parameters \in {p \in {DEFAULT_PARAMETERS, [mu0 |-> 9500, g |-> 850]} :
                                config.target_radiation_type \in TrainedTypes \ {"gti"}},
              metric \in {NaN}}

\* results[plant_id] = value
SetItem(results, plant_id, value) ==
    [p \in DOMAIN results \cup {plant_id} |-> IF p = plant_id THEN value ELSE results[p]]

\* main exits with a status
Exit(frame, status, raised_in) ==
    [frame EXCEPT !.pc = "exited", !.status = status, !.raised_in = raised_in]

\* the loop of TrainManager.train that goes on after an exception
train_step_lenient(frame, outcome) ==
    LET plant_id == frame.config.plant_ids[frame.i]
        after == [frame EXCEPT !.i = frame.i + 1,
                               !.results = IF outcome.raised # "" THEN frame.results
                                           ELSE SetItem(frame.results, plant_id, outcome.value),
                               !.trained = Append(frame.trained, plant_id)]
    IN  IF frame.i = Len(frame.config.plant_ids) THEN [after EXCEPT !.pc = "write_plant_artifacts"]
        ELSE after

\* one turn of the loop of TrainManager.train inside main: the exception of
\* _train_for_plant ends main with status 1
train_step(frame, outcome) ==
    LET plant_id == frame.config.plant_ids[frame.i]
        after == [frame EXCEPT !.i = frame.i + 1,
                               !.results = SetItem(frame.results, plant_id, outcome.value),
                               !.trained = Append(frame.trained, plant_id)]
    IN  IF outcome.raised # "" THEN Exit(frame, 1, "train")
        ELSE IF frame.i = Len(frame.config.plant_ids) THEN [after EXCEPT !.pc = "write_plant_artifacts"]
        ELSE after

\* main() started under a configuration: where it is (pc), the plant to train
\* next, the results so far, the plants whose training returned, what each
\* call of _train_for_plant raised, the plants whose artifact was written in
\* this run, the exit status (-1 while running) and the run before
NewFrame(config, run, previous) ==
    [op |-> "main", run |-> run, config |-> config,
     pc |-> IF config.mode = "train" THEN "train"
            ELSE IF config.mode = "inference" THEN "read_plant_artifacts"
            ELSE "exited",
     i |-> 1, results |-> <<>>, trained |-> <<>>, outcomes |-> <<>>, written |-> {},
     artifacts |-> None,
     status |-> IF config.mode \in {"train", "inference"} THEN 0 - 1 ELSE 1,
     raised_in |-> "", previous |-> previous]

\* load_config(args.config) and InputData(config.input) return, or raise and
\* main exits with status 1
Started(frame) == {frame, Exit(frame, 1, "load_config")}

\* the first run of main
StartMain(config) ==
    /\ FirstCall
    /\ ret' \in Started(NewFrame(config, 1, None))
    /\ UNCHANGED <<location_data, rest2, storage>>

\* one more run of main under the same configuration but for the mode
RunAgain(mode) ==
    /\ ret.op = "main"
    /\ ret.pc = "exited"
    /\ ret.run < MaxRuns
    /\ ret' \in Started(NewFrame([ret.config EXCEPT !.mode = mode], ret.run + 1,
                               Some([mode |-> ret.config.mode, status |-> ret.status,
                                     results |-> ret.results, written |-> ret.written])))
    /\ UNCHANGED <<location_data, rest2, storage>>

\* results[plant_id] = self._train_for_plant(plant_id), for the next plant
TrainForPlant ==
    /\ ret.op = "main"
    /\ ret.pc = "train"
    /\ \E outcome \in train_for_plant(ret.config) :
          ret' = [train_step(ret, outcome) EXCEPT !.outcomes = Append(ret.outcomes, outcome.raised)]
    /\ UNCHANGED <<location_data, rest2, storage>>

\* write_plant_artifacts(config, results) and what follows it when there
\* are no plots
WritePlantArtifacts ==
    /\ ret.op = "main"
    /\ ret.pc = "write_plant_artifacts"
    /\ \E r \in {write_plant_artifacts(ret.config, ret.results, files)} :
          /\ files' = r.stored
          /\ ret' = IF r.raised # "" THEN Exit(ret, 1, "write_plant_artifacts")
                    ELSE IF ret.config.plots
                         THEN [ret EXCEPT !.pc = "plots", !.written = DOMAIN ret.results]
                         ELSE [Exit(ret, 0, "") EXCEPT !.written = DOMAIN ret.results]
    /\ UNCHANGED <<location_data, rest2, factory, instances, calls>>

\* write_plant_train_plots or write_plant_inference_plots, which may raise
WritePlots ==
    /\ ret.op = "main"
    /\ ret.pc = "plots"
    /\ \E raised \in BOOLEAN : ret' = IF raised THEN Exit(ret, 1, "plots") ELSE Exit(ret, 0, "")
    /\ UNCHANGED <<location_data, rest2, storage>>

\* artifacts = read_plant_artifacts(config)
ReadPlantArtifacts ==
    /\ ret.op = "main"
    /\ ret.pc = "read_plant_artifacts"
    /\ \E r \in {read_plant_artifacts(ret.config, files)} :
          ret' = IF r.raised # "" THEN Exit(ret, 1, "read_plant_artifacts")
                 ELSE [ret EXCEPT !.pc = "predict", !.artifacts = Some(r.value)]
    /\ UNCHANGED <<location_data, rest2, storage>>

\* results = manager.predict(artifacts) and write_inference_results(config,
\* results): a prediction may raise, and so does chosen_radiation for a
\* radiation type it does not know
PredictAndWrite ==
    /\ ret.op = "main"
    /\ ret.pc = "predict"
    /\ \E raised \in BOOLEAN :
          ret' = IF raised THEN Exit(ret, 1, "predict")
                 ELSE IF ret.config.target_radiation_type \notin {"ghi", "dni", "dhi"}
                      THEN Exit(ret, 1, "write_inference_results")
                      ELSE IF ret.config.plots THEN [ret EXCEPT !.pc = "plots"]
                           ELSE Exit(ret, 0, "")
    /\ UNCHANGED <<location_data, rest2, storage>>

NextMain ==
    \/ \E config \in Configs : StartMain(config)
    \/ \E mode \in {"train", "inference", "evaluate"} : RunAgain(mode)
    \/ TrainForPlant
    \/ WritePlantArtifacts
    \/ WritePlots
    \/ ReadPlantArtifacts
    \/ PredictAndWrite

SpecMain == Init /\ [][NextMain]_vars

\* a run of main in a mode
Running(mode) == ret.op = "main" /\ ret.config.mode = mode

\* the plants of the configuration
ConfiguredPlants == {ret.config.plant_ids[k] : k \in 1..Len(ret.config.plant_ids)}

\* an inference run has read the artifacts, or failed to, after a train run
\* under the same configuration that wrote them
ReadAfterTraining ==
    /\ Running("inference")
    /\ ret.pc # "read_plant_artifacts"
    /\ ret.raised_in # "load_config"
    /\ ret.previous # None
    /\ ret.previous.val.mode = "train"
    /\ ret.previous.val.written = ConfiguredPlants

\* C29 as stated: an artifact written by write_plant_artifacts for a plant
\* under config.artifact is read back by read_plant_artifacts with the same
\* config, for local and for s3:// artifact locations alike, and yields the
\* same parameters mapping {mu0, g} and radiation_type that were written.
C29_AsStated ==
    ReadAfterTraining =>
        /\ ret.artifacts # None
        /\ \A plant_id \in ConfiguredPlants :
              /\ ret.artifacts.val[plant_id].parameters
                    = [mu0 |-> Num(ret.previous.val.results[plant_id].train.parameters.mu0),
                       g |-> Num(ret.previous.val.results[plant_id].train.parameters.g)]
              /\ ret.artifacts.val[plant_id].radiation_type = ret.config.target_radiation_type

\* a call of _train_for_plant of this run raised
TrainingRaised == \E k \in 1..Len(ret.outcomes) : ret.outcomes[k] # ""

\* the plants whose training returned are the first of config.plant_ids, in
\* their order
InConfigOrder ==
    /\ Len(ret.trained) <= Len(ret.config.plant_ids)
    /\ \A k \in 1..Len(ret.trained) : ret.trained[k] = ret.config.plant_ids[k]

\* where main is in a run: nothing is written once a training raised, and
\* nothing is trained or written in an unknown mode
C30_State ==
    /\ Running("train") =>
          /\ InConfigOrder
          /\ ret.written # {} => (ret.trained = ret.config.plant_ids /\ ~TrainingRaised)
          /\ TrainingRaised => (ret.pc = "exited" /\ ret.status = 1 /\ ret.written = {})
    /\ (ret.op = "main" /\ ret.config.mode \notin {"train", "inference"}) =>
          /\ ret.pc = "exited"
          /\ ret.status = 1
          /\ ret.trained = <<>>
          /\ ret.outcomes = <<>>
          /\ ret.written = {}

\* the files stored change only in a train run, after every plant's training
\* has returned
C30_Step ==
    files' # files =>
        /\ Running("train")
        /\ ret.pc = "write_plant_artifacts"
        /\ ret.trained = ret.config.plant_ids
        /\ ~TrainingRaised

\* C30: in train mode main writes artifacts only after TrainManager.train
\* has returned for every configured plant id, plants being trained one
\* after another in config order: if training or evaluating any plant
\* raises, no artifact is written for any plant and the process exits with
\* status 1; an unknown mode also exits with status 1 without training or
\* writing.
C30_ArtifactsAfterAllTraining == [](C30_State) /\ [][C30_Step]_vars

\* a train run that ended with status 1 because the training of a later
\* plant raised after that of an earlier plant had returned, artifacts of an
\* earlier run being stored
C30_Witness ==
    /\ Running("train")
    /\ ret.trained # <<>>
    /\ TrainingRaised
    /\ ret.pc = "exited"
    /\ ret.status = 1
    /\ files # {}
====
